---------------------------- MODULE Spec2Model ----------------------------
(***************************************************************************)
(* Model of bcachefs-rs: the `format` subcommand (src/bcachefs.rs,         *)
(* src/format.rs) and the little-endian record builders it uses            *)
(* (src/super_block.rs).                                                   *)
(*                                                                         *)
(* Buffers are sequences of bytes (TLA+ index k holds the byte at Rust     *)
(* offset k-1).  A 64-bit word is handled as its 8 little-endian bytes or  *)
(* its 64 bits, because the values exceed TLC's 32-bit integers.            *)
(* A device is a function from sector number to sector content.            *)
(***************************************************************************)
EXTENDS Integers, Sequences, FiniteSets, TLC

(***************************************************************************)
(* Bounds of the model                                                     *)
(***************************************************************************)
MaxDevs == 5            \* longest device list on the command line
MaxReplicas == 3        \* largest value given to a replica option
MaxSizeExp == 24        \* device sizes of the planner runs reach 5 * 2^24 sectors

(***************************************************************************)
(* Program constants                                                       *)
(***************************************************************************)
METADATA_VERSION_MAX == 14
METADATA_VERSION_CURRENT == METADATA_VERSION_MAX - 1
MIN_NR_NBUCKETS == 64
MIN_BLOCK_SIZE == 512
DEFAULT_BLOCK_SIZE == MIN_BLOCK_SIZE
DEFAULT_BTREE_NODE_SIZE == 512
SB_SECTOR == 8
LAYOUT_SECTOR == 7
BUCKET_SIZE_CAP == 2048
SECTOR_SHIFT == 9
SectorBytes == 512
ZEROS_LEN == 4096
FLAGS_BUF_LEN == 64
LAYOUT_BUF_LEN == 512
SB_BUF_LEN == 1024
MEMBER_LEN == 56
GC_RESERVE_VALUE == 8
DURABILITY_VALUE == 2
DEFAULT_SUPERBLOCK_SIZE == 2048

\* sb_offsets
SB_VERSION == 16
SB_VERSION_MIN == 18
SB_MAGIC == 24
SB_UUID == 40
SB_UUID_END == 56
SB_USER_UUID == 56
SB_LABEL == 72
SB_LABEL_END == 104
SB_LABEL_SIZE == SB_LABEL_END - SB_LABEL
SB_OFFSET == 104
SB_SEQ == 112
SB_BLOCK_SIZE == 120
SB_DEV_IDX == 122
SB_NR_DEVS == 123
SB_U64S == 124
SB_TIME_BASE_LO == 128
SB_TIME_BASE_HI == 136
SB_TIME_BASE_P == 140
SB_FLAGS == 144
SB_FEATURES == 208
SB_COMPAT == 224
SB_LAYOUT == 240
LAYOUT_SB_OFFSET_END == 512
SB_LAYOUT_END == SB_LAYOUT + LAYOUT_SB_OFFSET_END
SB_FIELDS == SB_LAYOUT_END

\* layout_offsets
LAYOUT_MAGIC == 0
LAYOUT_LAYOUT_TYPE == 16
LAYOUT_SB_MAX_SIZE == 17
LAYOUT_NR_SUPERBLOCKS == 18
LAYOUT_SB_OFFSET == 24

\* member_offsets
MEMBER_UUID == 0
MEMBER_N_BUCKETS == 16
MEMBER_FIRST_BUCKET == 24
MEMBER_BUCKET_SIZE == 26
MEMBER_FLAGS == 40
MEMBER_FLAGS_END == 56

FIELD_MEMBERS == 1

(***************************************************************************)
(* Bytes, little-endian integers, bits                                     *)
(***************************************************************************)
Zeros(n) == [k \in 1..n |-> 0]

Min(a, b) == IF a < b THEN a ELSE b
Max(a, b) == IF a > b THEN a ELSE b

RECURSIVE Pow2(_)
Pow2(k) == IF k = 0 THEN 1 ELSE 2 * Pow2(k - 1)

\* the n big-endian bytes of v
RECURSIVE LEBytes_be(_, _)
LEBytes_be(v, n) == IF n = 0 THEN <<>> ELSE LEBytes_be(v \div 256, n - 1) \o <<v % 256>>

\* byteorder::LittleEndian::write_uN: the n little-endian bytes of v
RECURSIVE LEBytes(_, _)
LEBytes(v, n) == IF n = 0 THEN <<>> ELSE <<v % 256>> \o LEBytes(v \div 256, n - 1)

\* byteorder::LittleEndian::read_uN of a byte sequence
RECURSIVE LEValue(_)
LEValue(bs) == IF bs = <<>> THEN 0 ELSE bs[1] + 256 * LEValue(Tail(bs))

\* &buf[start..end] (Rust offsets: start inclusive, end exclusive)
Slice(buf, start, end) == SubSeq(buf, start + 1, end)

\* buf[start..start+len(bytes)].copy_from_slice(bytes)
WriteAt(buf, start, bytes) ==
    SubSeq(buf, 1, start) \o bytes \o SubSeq(buf, start + Len(bytes) + 1, Len(buf))

\* bit k (0 = least significant) of the little-endian word held in 8 bytes
BitOf(bytes, k) == (bytes[(k \div 8) + 1] \div Pow2(k % 8)) % 2

\* the 8 little-endian bytes of the word whose bit k is bits[k+1]
BitsToBytes(bits) ==
    [j \in 1..8 |->
        bits[8*(j-1)+1]      + 2 * bits[8*(j-1)+2]  + 4 * bits[8*(j-1)+3]
      + 8 * bits[8*(j-1)+4]  + 16 * bits[8*(j-1)+5] + 32 * bits[8*(j-1)+6]
      + 64 * bits[8*(j-1)+7] + 128 * bits[8*(j-1)+8]]

(***************************************************************************)
(* Result<T>: err = "none" is Ok(val)                                      *)
(***************************************************************************)
Ok(v) == [err |-> "none", val |-> v]
Err(e, v) == [err |-> e, val |-> v]
\* the `?` operator: continue with F on Ok, return the error otherwise
Bind(r, F(_)) == CHOOSE y \in {IF x.err # "none" THEN x ELSE F(x.val) : x \in {r}} : TRUE

(***************************************************************************)
(* uuid                                                                    *)
(***************************************************************************)
\* magic(): Uuid::from_fields_le(0xf67385c6, 0x1a4e, 0xca45, MAGIC_D4) as bytes
MagicBytes ==
    <<198, 133, 115, 246, 78, 26, 69, 202, 130, 101, 245, 127, 72, 186, 109, 129>>

\* Uuid::to_u128_le: the u128 whose base-256 digit k (least significant first)
\* is byte k of the uuid; the u128 is kept as that digit sequence
to_u128_le(uuid) == [k \in 1..16 |-> uuid[k]]
\* LittleEndian::write_u128: digit k goes to offset k-1
write_u128(digits) == [k \in 1..16 |-> digits[k]]

\* Uuid::new_v4(): the k-th uuid drawn from the random source (version 4,
\* variant 1); distinct draws are distinct
new_v4(k) == <<k % 256, k \div 256, 0, 0, 0, 0, 64, 0, 128, 0, 0, 0, 0, 0, 0, 0>>


(***************************************************************************)
(* super_block.rs: SuperBlock<T>.  self = [buffer, last_field_offset]      *)
(***************************************************************************)
SuperBlock_from(buf) == [buffer |-> buf, last_field_offset |-> 0]

\* a setter of a little-endian field at bytes start..start+Len(bytes), guarded
\* by `buf.len() < need`
SbPut(self, need, start, bytes) ==
    IF Len(self.buffer) < need
    THEN Err("Exhausted", self)
    ELSE Ok([self EXCEPT !.buffer = WriteAt(self.buffer, start, bytes)])

set_version(self, version) == SbPut(self, SB_VERSION + 2, SB_VERSION, LEBytes(version, 2))

set_version_min(self, version) ==
    SbPut(self, SB_VERSION_MIN + 2, SB_VERSION_MIN, LEBytes(version, 2))

set_magic(self) == SbPut(self, SB_MAGIC + 16, SB_MAGIC, write_u128(to_u128_le(MagicBytes)))

set_uuid(self, uuid) == SbPut(self, SB_UUID_END, SB_UUID, write_u128(to_u128_le(uuid)))

set_user_uuid(self, uuid) ==
    SbPut(self, SB_USER_UUID + 16, SB_USER_UUID, write_u128(to_u128_le(uuid)))

set_label(self, label) ==
    IF Len(self.buffer) < SB_LABEL_END THEN Err("Exhausted", self)
    ELSE IF Len(label) > SB_LABEL_SIZE THEN Err("Exhausted", self)
    ELSE Ok([self EXCEPT !.buffer = WriteAt(self.buffer, SB_LABEL, label)])

set_seq(self, seq) == SbPut(self, SB_SEQ + 8, SB_SEQ, LEBytes(seq, 8))

set_offset(self, offset) == SbPut(self, SB_OFFSET + 8, SB_OFFSET, LEBytes(offset, 8))

set_block_size(self, block_size) ==
    SbPut(self, SB_BLOCK_SIZE + 2, SB_BLOCK_SIZE, LEBytes(block_size, 2))

\* set_dev_idx storing at NR_DEVS
set_dev_idx_at_nr_devs(self, val) == SbPut(self, SB_DEV_IDX, SB_NR_DEVS, <<val>>)

\* buf[DEV_IDX] = val, guarded by `buf.len() < DEV_IDX`; an index past the end
\* of the buffer panics
set_dev_idx(self, val) ==
    IF Len(self.buffer) < SB_DEV_IDX THEN Err("Exhausted", self)
    ELSE IF Len(self.buffer) <= SB_DEV_IDX THEN Err("panic", self)
    ELSE Ok([self EXCEPT !.buffer = WriteAt(self.buffer, SB_DEV_IDX, <<val>>)])

set_nr_devices(self, val) ==
    IF Len(self.buffer) < SB_NR_DEVS THEN Err("Exhausted", self)
    ELSE IF Len(self.buffer) <= SB_NR_DEVS THEN Err("panic", self)
    ELSE Ok([self EXCEPT !.buffer = WriteAt(self.buffer, SB_NR_DEVS, <<val>>)])

\* set_u64s storing the cursor in bytes
set_u64s_in_bytes(self) ==
    IF Len(self.buffer) < SB_DEV_IDX THEN Err("Exhausted", self)
    ELSE IF Len(self.buffer) < SB_U64S + 4 THEN Err("panic", self)
    ELSE Ok([self EXCEPT !.buffer =
                WriteAt(self.buffer, SB_U64S, LEBytes(self.last_field_offset, 4))])

\* u64s = last_field_offset / 8, guarded by `buf.len() < DEV_IDX`
set_u64s(self) ==
    IF Len(self.buffer) < SB_DEV_IDX THEN Err("Exhausted", self)
    ELSE IF Len(self.buffer) < SB_U64S + 4 THEN Err("panic", self)
    ELSE Ok([self EXCEPT !.buffer =
                WriteAt(self.buffer, SB_U64S, LEBytes(self.last_field_offset \div 8, 4))])

set_time_base_p(self, val) ==
    SbPut(self, SB_TIME_BASE_P + 4, SB_TIME_BASE_P, LEBytes(val, 4))

set_feature(self, idx, val) ==
    SbPut(self, SB_FEATURES + idx * 8 + 8, SB_FEATURES + idx * 8, LEBytes(val, 8))

set_flags(self, flags_buf) == SbPut(self, SB_FLAGS + Len(flags_buf), SB_FLAGS, flags_buf)

\* set_layout copying to the compat words instead of the layout range
set_layout_at_compat(self, layout_buf) ==
    SbPut(self, SB_COMPAT + Len(layout_buf), SB_COMPAT, layout_buf)

set_layout(self, layout_buf) ==
    SbPut(self, SB_LAYOUT + Len(layout_buf), SB_LAYOUT, layout_buf)

add_field(self, ty, field_buf) ==
    LET field_buf_len == Len(field_buf) + 8
        start == SB_FIELDS + self.last_field_offset + 8
        header_start == SB_FIELDS + self.last_field_offset
    IN  IF Len(self.buffer) < start + Len(field_buf)
        THEN Err("Exhausted", self)
        ELSE Ok([buffer |->
                    WriteAt(WriteAt(WriteAt(self.buffer, header_start,
                                            LEBytes(field_buf_len \div 8, 4)),
                                    header_start + 4, LEBytes(ty, 4)),
                            start, field_buf),
                 last_field_offset |-> self.last_field_offset + field_buf_len])

(***************************************************************************)
(* super_block.rs: SuperBlockLayout<T>.  self is the buffer                *)
(***************************************************************************)
LayoutPut(buf, need, start, bytes) ==
    IF Len(buf) < need THEN Err("Exhausted", buf)
    ELSE IF Len(buf) < start + Len(bytes) THEN Err("panic", buf)
    ELSE Ok(WriteAt(buf, start, bytes))

layout_set_magic(buf) ==
    LayoutPut(buf, LAYOUT_MAGIC + 16, LAYOUT_MAGIC, write_u128(to_u128_le(MagicBytes)))

set_layout_type(buf, val) == LayoutPut(buf, LAYOUT_LAYOUT_TYPE, LAYOUT_LAYOUT_TYPE, <<val>>)

set_sb_max_size(buf, val) == LayoutPut(buf, LAYOUT_SB_MAX_SIZE, LAYOUT_SB_MAX_SIZE, <<val>>)

set_nr_superblocks(buf, val) ==
    LayoutPut(buf, LAYOUT_NR_SUPERBLOCKS, LAYOUT_NR_SUPERBLOCKS, <<val>>)

set_sb_offset(buf, idx, val) ==
    LayoutPut(buf, LAYOUT_SB_OFFSET + idx * 8 + 8, LAYOUT_SB_OFFSET + idx * 8, LEBytes(val, 8))

(***************************************************************************)
(* super_block.rs: bit-packed flags.  A flag is [w, lo, hi]: bits lo..hi   *)
(* (hi exclusive) of 64-bit word w.                                        *)
(***************************************************************************)
Flag(w, lo, hi) == [w |-> w, lo |-> lo, hi |-> hi]

SBF_BTREE_NODE_SIZE == Flag(0, 12, 28)
SBF_GC_RESERVE == Flag(0, 28, 33)
SBF_META_REPLICAS_WANT == Flag(0, 48, 52)
SBF_DATA_REPLICAS_WANT == Flag(0, 52, 56)
SBF_META_REPLICAS_REQ == Flag(1, 20, 24)
SBF_DATA_REPLICAS_REQ == Flag(1, 24, 28)

MF_REPLACEMENT == Flag(0, 10, 14)
MF_DISCARD == Flag(0, 14, 15)
MF_DATA_ALLOWED == Flag(0, 15, 20)
MF_DURABILITY == Flag(0, 28, 30)

\* field |= val << lo without the clearing of the old bits
SetBits_or_only(word, flag, val) ==
    BitsToBytes([k \in 1..64 |->
        IF flag.lo <= k - 1 /\ k - 1 < flag.hi
        THEN Max((val \div Pow2(k - 1 - flag.lo)) % 2, BitOf(word, k - 1))
        ELSE BitOf(word, k - 1)])

\* field &= !(max << lo); field |= val << lo, on the word's 8 bytes
SetBits(word, flag, val) ==
    BitsToBytes([k \in 1..64 |->
        IF flag.lo <= k - 1 /\ k - 1 < flag.hi
        THEN (val \div Pow2(k - 1 - flag.lo)) % 2
        ELSE BitOf(word, k - 1)])

\* the set_flag of SuperBlockFlags (flags_base = 0, flags_end = no limit) and
\* of MemberField (the two differ in the start of the flag words and in the
\* second length test)
FlagPut(buf, base, limited, limit, flag, val) ==
    LET max == Pow2(flag.hi - flag.lo) - 1
        start == base + flag.w * 8
    IN  IF Len(buf) < start + 8 \/ (limited /\ limit < start + 8)
        THEN Err("Exhausted", buf)
        ELSE IF val > max THEN Err("Einval", buf)
        ELSE Ok(WriteAt(buf, start, SetBits(Slice(buf, start, start + 8), flag, val)))

set_flag(buf, flag, val) == FlagPut(buf, 0, FALSE, 0, flag, val)

member_set_flag(buf, flag, val) ==
    FlagPut(buf, MEMBER_FLAGS, TRUE, MEMBER_FLAGS_END, flag, val)

\* Features::ALL.bits(): bits 9, 12, 13, 17, 18 (ALWAYS) and 7, 11, 15, 16
FeaturesALL ==
    Pow2(9) + Pow2(12) + Pow2(13) + Pow2(17) + Pow2(18)
    + Pow2(7) + Pow2(11) + Pow2(15) + Pow2(16)

\* DataTypes::DEFAULT.bits(): SB | JOURNAL | BTREE | USER
DataTypesDEFAULT == Pow2(1) + Pow2(2) + Pow2(3) + Pow2(4)

(***************************************************************************)
(* super_block.rs: MemberField<T>.  self is the byte slice the view holds  *)
(***************************************************************************)
MemberPut(buf, need, start, bytes) ==
    IF Len(buf) < need THEN Err("Exhausted", buf)
    ELSE Ok(WriteAt(buf, start, bytes))

\* the length test of set_uuid uses sb_offsets::UUID.end
member_set_uuid(buf, uuid) ==
    MemberPut(buf, SB_UUID_END, MEMBER_UUID, write_u128(to_u128_le(uuid)))

set_n_buckets(buf, val) ==
    MemberPut(buf, MEMBER_N_BUCKETS + 8, MEMBER_N_BUCKETS, LEBytes(val, 8))

set_first_bucket(buf, val) ==
    MemberPut(buf, MEMBER_FIRST_BUCKET + 2, MEMBER_FIRST_BUCKET, LEBytes(val, 2))

set_bucket_size(buf, val) ==
    MemberPut(buf, MEMBER_BUCKET_SIZE + 2, MEMBER_BUCKET_SIZE, LEBytes(val, 2))


(***************************************************************************)
(* super_block.rs: the getters.  A u8 or u16 is returned as a number, a    *)
(* u32, u64 or u128 as its little-endian bytes.  get_x is the getter x.    *)
(***************************************************************************)
\* Uuid::from_u128_le and LittleEndian::read_u128, the inverses of
\* to_u128_le and write_u128
read_u128(bytes) == [k \in 1..16 |-> bytes[k]]
from_u128_le(digits) == [k \in 1..16 |-> digits[k]]

\* a getter of bytes start..end guarded by `buf.len() < need`; a slice past
\* the end of the buffer panics
BufGet(buf, need, start, end) ==
    IF Len(buf) < need THEN Err("Exhausted", <<>>)
    ELSE IF Len(buf) < end THEN Err("panic", <<>>)
    ELSE Ok(Slice(buf, start, end))

\* the value of a Result mapped through f
MapOk(r, f(_)) == IF r.err # "none" THEN r ELSE Ok(f(r.val))

get_version(self) ==
    MapOk(BufGet(self.buffer, SB_VERSION + 2, SB_VERSION, SB_VERSION + 2), LEValue)
get_version_min(self) ==
    MapOk(BufGet(self.buffer, SB_VERSION_MIN + 2, SB_VERSION_MIN, SB_VERSION_MIN + 2), LEValue)
get_magic(self) ==
    MapOk(BufGet(self.buffer, SB_MAGIC + 16, SB_MAGIC, SB_MAGIC + 16),
          LAMBDA b : from_u128_le(read_u128(b)))
get_uuid(self) ==
    MapOk(BufGet(self.buffer, SB_UUID_END, SB_UUID, SB_UUID_END),
          LAMBDA b : from_u128_le(read_u128(b)))
get_user_uuid(self) ==
    MapOk(BufGet(self.buffer, SB_USER_UUID + 16, SB_USER_UUID, SB_USER_UUID + 16),
          LAMBDA b : from_u128_le(read_u128(b)))
get_label(self) == BufGet(self.buffer, SB_LABEL_END, SB_LABEL, SB_LABEL_END)
get_block_size(self) ==
    MapOk(BufGet(self.buffer, SB_BLOCK_SIZE + 2, SB_BLOCK_SIZE, SB_BLOCK_SIZE + 2), LEValue)
\* device_index and nr_devices test `buf.len() <= offset`
get_device_index(self) ==
    MapOk(BufGet(self.buffer, SB_DEV_IDX + 1, SB_DEV_IDX, SB_DEV_IDX + 1), LEValue)
get_nr_devices(self) ==
    MapOk(BufGet(self.buffer, SB_NR_DEVS + 1, SB_NR_DEVS, SB_NR_DEVS + 1), LEValue)
get_u64s(self) == BufGet(self.buffer, SB_U64S + 4, SB_U64S, SB_U64S + 4)
get_time_base_lo(self) == BufGet(self.buffer, SB_TIME_BASE_LO + 8, SB_TIME_BASE_LO, SB_TIME_BASE_LO + 8)
get_time_base_hi(self) == BufGet(self.buffer, SB_TIME_BASE_HI + 4, SB_TIME_BASE_HI, SB_TIME_BASE_HI + 4)
get_time_base_p(self) == BufGet(self.buffer, SB_TIME_BASE_P + 4, SB_TIME_BASE_P, SB_TIME_BASE_P + 4)
\* the 8, 2 and 2 words as one byte sequence
get_flags_u64s(self) == BufGet(self.buffer, SB_FEATURES, SB_FLAGS, SB_FEATURES)
get_feature(self, idx) ==
    BufGet(self.buffer, SB_FEATURES + idx * 8 + 8, SB_FEATURES + idx * 8,
           SB_FEATURES + idx * 8 + 8)
get_features(self) == BufGet(self.buffer, SB_COMPAT, SB_FEATURES, SB_COMPAT)
get_compat(self) == BufGet(self.buffer, SB_LAYOUT, SB_COMPAT, SB_LAYOUT)

layout_magic(buf) ==
    MapOk(BufGet(buf, LAYOUT_MAGIC + 16, LAYOUT_MAGIC, LAYOUT_MAGIC + 16),
          LAMBDA b : from_u128_le(read_u128(b)))
\* layout_type, sb_max_size and nr_superblocks test `buf.len() < offset`
get_layout_type(buf) ==
    MapOk(BufGet(buf, LAYOUT_LAYOUT_TYPE, LAYOUT_LAYOUT_TYPE, LAYOUT_LAYOUT_TYPE + 1), LEValue)
get_sb_max_size(buf) ==
    MapOk(BufGet(buf, LAYOUT_SB_MAX_SIZE, LAYOUT_SB_MAX_SIZE, LAYOUT_SB_MAX_SIZE + 1), LEValue)
get_nr_superblocks(buf) ==
    MapOk(BufGet(buf, LAYOUT_NR_SUPERBLOCKS, LAYOUT_NR_SUPERBLOCKS, LAYOUT_NR_SUPERBLOCKS + 1),
          LEValue)
get_sb_offset(buf, idx) ==
    BufGet(buf, LAYOUT_SB_OFFSET + idx * 8 + 8, LAYOUT_SB_OFFSET + idx * 8,
           LAYOUT_SB_OFFSET + idx * 8 + 8)

\* the catalogs of named flags
SuperBlockFlag ==
    [ERROR_ACTION |-> Flag(0, 8, 12),
     BTREE_NODE_SIZE |-> SBF_BTREE_NODE_SIZE,
     GC_RESERVE |-> SBF_GC_RESERVE,
     META_REPLICAS_WANT |-> SBF_META_REPLICAS_WANT,
     DATA_REPLICAS_WANT |-> SBF_DATA_REPLICAS_WANT,
     POSIX_ACL |-> Flag(0, 56, 57),
     USRQUOTA |-> Flag(0, 57, 58),
     GRPQUOTA |-> Flag(0, 57, 58),
     PRJQUOTA |-> Flag(0, 57, 58),
     META_REPLICAS_REQ |-> SBF_META_REPLICAS_REQ,
     DATA_REPLICAS_REQ |-> SBF_DATA_REPLICAS_REQ,
     PROMOTE_TARGET |-> Flag(1, 28, 40),
     FOREGROUND_TARGET |-> Flag(1, 40, 52),
     BACKGROUND_TARGET |-> Flag(1, 52, 64),
     METADATA_TARGET |-> Flag(3, 16, 28)]

MemberFlag ==
    [REPLACEMENT |-> MF_REPLACEMENT,
     DISCARD |-> MF_DISCARD,
     DATA_ALLOWED |-> MF_DATA_ALLOWED,
     GROUP |-> Flag(0, 20, 28),
     DURABILITY |-> MF_DURABILITY]

(***************************************************************************)
(* Option<T>: None is <<>>, Some(x) is <<x>>                               *)
(***************************************************************************)
None == <<>>
Some(x) == <<x>>
IsSome(o) == o # <<>>
Unwrap(o) == o[1]

(***************************************************************************)
(* bcachefs.rs: replica resolution                                         *)
(***************************************************************************)
\* resolve_replicas without the test of data_replicas against the devices
resolve_replicas_unchecked_data(replicas, metadata, data, ndevs) ==
    IF ~IsSome(replicas) /\ IsSome(metadata) /\ IsSome(data)
    THEN IF Unwrap(metadata) > ndevs THEN Err("ConfigError", <<>>)
         ELSE Ok(<<Unwrap(metadata), Unwrap(data)>>)
    ELSE IF IsSome(replicas) /\ ~IsSome(metadata) /\ ~IsSome(data)
    THEN IF Unwrap(replicas) > ndevs THEN Err("ConfigError", <<>>)
         ELSE Ok(<<Unwrap(replicas), Unwrap(replicas)>>)
    ELSE IF ~IsSome(replicas) /\ ~IsSome(metadata) /\ ~IsSome(data)
    THEN Ok(<<1, 1>>)
    ELSE Err("ConfigError", <<>>)

\* FormatArgs::try_into: the match on (replicas, metadata_replicas,
\* data_replicas) against the number of devices
resolve_replicas(replicas, metadata, data, ndevs) ==
    IF ~IsSome(replicas) /\ IsSome(metadata) /\ IsSome(data)
    THEN IF Unwrap(metadata) > ndevs THEN Err("ConfigError", <<>>)
         ELSE IF Unwrap(data) > ndevs THEN Err("ConfigError", <<>>)
         ELSE Ok(<<Unwrap(metadata), Unwrap(data)>>)
    ELSE IF IsSome(replicas) /\ ~IsSome(metadata) /\ ~IsSome(data)
    THEN IF Unwrap(replicas) > ndevs THEN Err("ConfigError", <<>>)
         ELSE Ok(<<Unwrap(replicas), Unwrap(replicas)>>)
    ELSE IF ~IsSome(replicas) /\ ~IsSome(metadata) /\ ~IsSome(data)
    THEN Ok(<<1, 1>>)
    ELSE Err("ConfigError", <<>>)

\* FormatArgs::try_into: o is the parsed command line, k the draw of the
\* random source that Uuid::new_v4() takes (unwrap_or evaluates it always)
try_into(o, k) ==
    LET r == resolve_replicas(o.replicas, o.metadata_replicas, o.data_replicas,
                              Len(o.devices))
    IN  IF r.err # "none" THEN r
        ELSE Ok([metadata_replicas |-> r.val[1],
                 data_replicas |-> r.val[2],
                 encrypted |-> o.encrypted,
                 no_passphrase |-> o.no_passphrase,
                 label |-> o.label,
                 uuid |-> IF IsSome(o.uuid) THEN Unwrap(o.uuid) ELSE new_v4(k),
                 force |-> o.force,
                 superblock_size |-> o.superblock_size,
                 block_size |-> o.block_size,
                 devices |-> o.devices])

(***************************************************************************)
(* format.rs: geometry                                                     *)
(***************************************************************************)
\* a minimum one sector larger
min_size_plus_one(buckets) == buckets * MIN_NR_NBUCKETS + 1

\* fn min_size
min_size(buckets) == buckets * MIN_NR_NBUCKETS

RECURSIVE FloorLog2(_)
FloorLog2(x) == IF x <= 1 THEN 0 ELSE 1 + FloorLog2(x \div 2)

\* (x as f64).log2() as u64: log2(0) is -inf, which the cast saturates to 0
Log2AsU64(x) == IF x = 0 THEN 0 ELSE FloorLog2(x)

\* while size < min_size(bucket_size) { bucket_size /= 2 }
RECURSIVE Halve(_, _)
Halve(size, bucket_size) ==
    IF size < min_size(bucket_size) THEN Halve(size, bucket_size \div 2) ELSE bucket_size

\* size / bucket_size rounded up
nbuckets_round_up(size, bucket_size) == (size + bucket_size - 1) \div bucket_size

\* let nbuckets = size / bucket_size
nbuckets_of(size, bucket_size) == size \div bucket_size

\* the grown bucket size divided by the scale
grow_bucket_divided(bucket_size, scale) == Min(bucket_size, BUCKET_SIZE_CAP) \div scale

\* bucket_size = cmp::min(bucket_size * scale, 1 << 11)
grow_bucket(bucket_size, scale) == Min(bucket_size * scale, BUCKET_SIZE_CAP)

\* the clamp to twice the minimum
clamp_bucket_doubled(bucket_size) == Max(bucket_size, 2 * MIN_BLOCK_SIZE)

\* bucket_size = cmp::max(bucket_size, MIN_BLOCK_SIZE)
clamp_bucket(bucket_size) == Max(bucket_size, MIN_BLOCK_SIZE)

\* the path planning takes through its tests: "return" is the too-small
\* return, "scale" the branch of `size >= min_size(bucket_size)`, "halve" its
\* else branch with the while loop
PlanBranch(size, block_size, arg_block_size) ==
    LET b0 == Max(arg_block_size, block_size * Pow2(SECTOR_SHIFT))
    IN  IF size < min_size(b0) THEN "return"
        ELSE IF size >= min_size(clamp_bucket(b0)) THEN "scale"
        ELSE "halve"

\* the bucket planning of format's first loop: size and block_size are what
\* get_size(..) >> 9 and get_blocksize(..) returned, arg_block_size is
\* args.block_size.  An integer division by zero panics.
BucketPlan(size, block_size, arg_block_size) ==
    LET b0 == Max(arg_block_size, block_size * Pow2(SECTOR_SHIFT))
        branch == PlanBranch(size, block_size, arg_block_size)
    IN  IF branch = "return" THEN Err("ConfigError", "too small")
        ELSE IF branch = "scale" /\ min_size(arg_block_size) = 0
        THEN Err("panic", "attempt to divide by zero")
        ELSE
        LET b1 == clamp_bucket(b0)
            b2 == IF branch = "scale"
                  THEN grow_bucket(b1, Max(1, Log2AsU64(size \div min_size(arg_block_size)) \div 4))
                  ELSE Halve(size, b1)
        IN  IF b2 = 0 THEN Err("panic", "attempt to divide by zero")
            ELSE
            LET nbuckets == nbuckets_of(size, b2)
            IN  IF b2 < arg_block_size \div Pow2(SECTOR_SHIFT)
                THEN Err("ConfigError", "block size too small for bucket size")
                ELSE IF nbuckets < MIN_NR_NBUCKETS
                THEN Err("ConfigError", "too few buckets")
                ELSE Ok([bucket_size |-> b2, nbuckets |-> nbuckets])

\* the block size of the first device instead of the largest
MaxDevBlockSize_first(ds) == IF ds = <<>> THEN None ELSE Some(ds[1].block_size)

\* Option<u64> of devs.iter().map(|dev| dev.block_size).max()
MaxDevBlockSize(ds) ==
    IF ds = <<>> THEN None
    ELSE Some(CHOOSE m \in {ds[k].block_size : k \in 1..Len(ds)} :
                \A k \in 1..Len(ds) : ds[k].block_size <= m)

\* devs.iter().map(|dev| dev.bucket_size).min().unwrap_or(DEFAULT_BTREE_NODE_SIZE)
MinBucketSize(ds) ==
    IF ds = <<>> THEN DEFAULT_BTREE_NODE_SIZE
    ELSE CHOOSE m \in {ds[k].bucket_size : k \in 1..Len(ds)} :
            \A k \in 1..Len(ds) : m <= ds[k].bucket_size

\* the block-size test left out
block_size_ok_skipped(ds, arg_block_size) == TRUE

\* the block-size test after the planning loop
block_size_ok(ds, arg_block_size) ==
    LET m == MaxDevBlockSize(ds)
    IN  IsSome(m) /\ ~(arg_block_size \div Pow2(SECTOR_SHIFT) < Unwrap(m))

(***************************************************************************)
(* format.rs: the buffers format builds                                    *)
(***************************************************************************)
\* flags_buf after the six set_flag calls
build_flags(ds, a) ==
    Bind(Bind(Bind(Bind(Bind(
        set_flag(Zeros(FLAGS_BUF_LEN), SBF_BTREE_NODE_SIZE,
                 Min(MinBucketSize(ds), DEFAULT_BTREE_NODE_SIZE)),
        LAMBDA b : set_flag(b, SBF_GC_RESERVE, GC_RESERVE_VALUE)),
        LAMBDA b : set_flag(b, SBF_META_REPLICAS_WANT, a.metadata_replicas)),
        LAMBDA b : set_flag(b, SBF_DATA_REPLICAS_WANT, a.data_replicas)),
        LAMBDA b : set_flag(b, SBF_META_REPLICAS_REQ, 1)),
        LAMBDA b : set_flag(b, SBF_DATA_REPLICAS_REQ, 1))

\* layout_buf after the five layout setters
build_layout(a) ==
    Bind(Bind(Bind(Bind(
        layout_set_magic(Zeros(LAYOUT_BUF_LEN)),
        LAMBDA b : set_layout_type(b, 0)),
        LAMBDA b : set_nr_superblocks(b, 1)),
        LAMBDA b : set_sb_max_size(b, Log2AsU64(a.superblock_size) % 256)),
        LAMBDA b : set_sb_offset(b, 0, SB_SECTOR))

\* one pass of the member loop: the view is member_buf[(56 * i)..], k the draw
\* of the random source for the member's uuid
build_member(view, dev, k) ==
    Bind(Bind(Bind(Bind(Bind(Bind(Bind(
        member_set_uuid(view, new_v4(k)),
        LAMBDA b : set_n_buckets(b, dev.nbuckets)),
        LAMBDA b : set_first_bucket(b, 0)),
        LAMBDA b : set_bucket_size(b, dev.bucket_size % 65536)),
        LAMBDA b : member_set_flag(b, MF_REPLACEMENT, 0)),
        LAMBDA b : member_set_flag(b, MF_DISCARD, 0)),
        LAMBDA b : member_set_flag(b, MF_DATA_ALLOWED, DataTypesDEFAULT)),
        LAMBDA b : member_set_flag(b, MF_DURABILITY, DURABILITY_VALUE))

\* the member loop from device i (0-based) on; k is the next draw
RECURSIVE build_members(_, _, _, _)
build_members(member_buf, ds, i, k) ==
    IF i >= Len(ds) THEN Ok(member_buf)
    ELSE LET r == build_member(Slice(member_buf, MEMBER_LEN * i, Len(member_buf)),
                               ds[i + 1], k)
         IN  IF r.err # "none" THEN Err(r.err, member_buf)
             ELSE build_members(SubSeq(member_buf, 1, MEMBER_LEN * i) \o r.val,
                                ds, i + 1, k + 1)

\* sb after set_version .. set_u64s; k is the next draw of the random source:
\* the filesystem uuid takes k, the members k+1 ..
build_sb(ds, a, flags, layout, k) ==
    LET members == build_members(Zeros(MEMBER_LEN * Len(ds)), ds, 0, k + 1)
        head ==
            Bind(Bind(Bind(Bind(Bind(Bind(Bind(Bind(Bind(Bind(Bind(
                set_version(SuperBlock_from(Zeros(SB_BUF_LEN)), METADATA_VERSION_CURRENT),
                LAMBDA s : set_version_min(s, METADATA_VERSION_CURRENT)),
                LAMBDA s : set_magic(s)),
                LAMBDA s : set_block_size(s, a.block_size \div Pow2(SECTOR_SHIFT))),
                LAMBDA s : set_nr_devices(s, Len(a.devices) % 256)),
                LAMBDA s : set_uuid(s, new_v4(k))),
                LAMBDA s : set_user_uuid(s, a.uuid)),
                LAMBDA s : IF IsSome(a.label) THEN set_label(s, Unwrap(a.label)) ELSE Ok(s)),
                LAMBDA s : set_time_base_p(s, 1)),
                LAMBDA s : set_flags(s, flags)),
                LAMBDA s : set_layout(s, layout)),
                LAMBDA s : set_feature(s, 0, FeaturesALL))
    IN  Bind(Bind(head,
             LAMBDA s : IF members.err # "none" THEN Err(members.err, s)
                        ELSE add_field(s, FIELD_MEMBERS, members.val)),
             LAMBDA s : set_u64s(s))

\* what the last loop does to sb before writing device i (0-based)
sb_for_dev(s, i) ==
    Bind(set_dev_idx(s, i % 256), LAMBDA t : set_offset(t, SB_SECTOR))


(***************************************************************************)
(* Devices: the first ModelSectors sectors of each, sector by sector       *)
(***************************************************************************)
ModelSectors == 10

OldSector == [kind |-> "old", bytes |-> <<>>]
ZeroSector == [kind |-> "zero", bytes |-> <<>>]
DataSector(bytes) ==
    IF bytes = Zeros(SectorBytes) THEN ZeroSector ELSE [kind |-> "data", bytes |-> bytes]

FreshDevice == [s \in 0..(ModelSectors - 1) |-> OldSector]

\* a write that stores the first sector of buf only
pwrite_first_sector(dev, off, buf) ==
    [s \in DOMAIN dev |->
        IF off = s * SectorBytes
        THEN DataSector(Slice(buf, 0, SectorBytes))
        ELSE dev[s]]

\* file.seek(SeekFrom::Start(off)); file.write(buf), fully written; off and
\* Len(buf) are whole sectors
pwrite(dev, off, buf) ==
    [s \in DOMAIN dev |->
        IF off <= s * SectorBytes /\ s * SectorBytes < off + Len(buf)
        THEN DataSector(Slice(buf, s * SectorBytes - off, s * SectorBytes - off + SectorBytes))
        ELSE dev[s]]

\* the bytes of n sectors from sector s on; only of written sectors
ReadSector(dev, s) ==
    IF dev[s].kind = "zero" THEN Zeros(SectorBytes) ELSE dev[s].bytes

(***************************************************************************)
(* The environment's inputs                                                *)
(***************************************************************************)
\* replica options of the command line
ReplicaOpts == {None} \cup {Some(v) : v \in 0..MaxReplicas}
\* --block-size values the validator accepts, in bytes
BlockSizes == {512, 1000, 1024, 4096, 32768}
\* device sizes in sectors (get_size(..) >> 9)
DevSizes == {20480, 32767, 32768, 8388608}
\* native block sizes in sectors (get_blocksize)
DevBlockSizes == {1, 8}
\* what the operator types at the prompt, trimmed
Answers == {"y", "Y", "n", "yes"}
Labels == {None, Some(<<98, 99>>)}
UserUuid == <<1, 2, 3, 4, 5, 6, 7, 8, 9, 10, 11, 12, 13, 14, 15, 16>>
Uuids == {None, Some(UserUuid)}

Devices(n) == [k \in 1..n |-> k]

\* a parsed command line (the clap struct FormatArgs)
Cli(r, m, d, enc, nop, force, label, uuid, bs, n) ==
    [replicas |-> r, metadata_replicas |-> m, data_replicas |-> d,
     encrypted |-> enc, no_passphrase |-> nop, no_initialize |-> FALSE,
     label |-> label, uuid |-> uuid, force |-> force,
     superblock_size |-> DEFAULT_SUPERBLOCK_SIZE, block_size |-> bs,
     devices |-> Devices(n)]

(***************************************************************************)
(* State                                                                   *)
(***************************************************************************)
VARIABLES
    opts,        \* the parsed command line, None once try_into consumed it
    args,        \* libbcachefs::FormatArgs, None before try_into returned
    pc,          \* where the process is
    idx,         \* the running loop's device position (1-based)
    devs,        \* format's Vec<Device>
    flags_buf,   \* format's flags_buf (empty before it is created)
    layout_buf,  \* format's layout_buf
    sb,          \* format's SuperBlock over sb_buf
    disk,        \* the devices' sectors
    trace,       \* the writes issued to the devices, in order
    err,         \* the error the process ended with
    fault,       \* the first fault of the environment: a declined prompt or
                 \* a failed system call, with the place and the device
    ret,         \* what format returned
    rng,         \* draws taken from the random source
    probe,       \* the planning loop's locals size and block_size, as last
                 \* read from a device
    call,        \* the accessor call of a codec run, with its buffer
    out          \* what the accessor call returned and left in the buffer

vars == <<opts, args, pc, idx, devs, flags_buf, layout_buf, sb, disk, trace,
          err, fault, ret, rng, probe, call, out>>

NoErr == [kind |-> "none", at |-> "none", dev |-> 0]
NoSb == [buffer |-> <<>>, last_field_offset |-> 0]

Args == Unwrap(args)
NDevs == Len(disk)

InitWith(o) ==
    /\ opts = Some(o)
    /\ args = None
    /\ pc = "try_into"
    /\ idx = 0
    /\ devs = <<>>
    /\ flags_buf = <<>>
    /\ layout_buf = <<>>
    /\ sb = NoSb
    /\ disk = [k \in 1..Len(o.devices) |-> FreshDevice]
    /\ trace = <<>>
    /\ err = NoErr
    /\ fault = NoErr
    /\ ret = "none"
    /\ rng = 0
    /\ probe = <<>>
    /\ call = <<>>
    /\ out = <<>>

\* the option sets of the command lines of Spec, each one the argument parser
\* accepts: the defaults, the split replica options with a label and a block
\* size, and --replicas alone (more than a one-device list has)
OptionSets ==
    { [r |-> None, m |-> None, d |-> None, label |-> None, bs |-> DEFAULT_BLOCK_SIZE],
      [r |-> None, m |-> Some(1), d |-> Some(2), label |-> Some(<<98, 99>>), bs |-> 4096],
      [r |-> Some(2), m |-> None, d |-> None, label |-> None, bs |-> DEFAULT_BLOCK_SIZE] }

Init ==
    \E o \in OptionSets, enc \in BOOLEAN, nop \in BOOLEAN, force \in BOOLEAN,
       n \in 1..MaxDevs :
        InitWith(Cli(o.r, o.m, o.d, enc, nop, force, o.label, None, o.bs, n))

\* the environment's fault in the step taken at pc for device idx, if it is
\* the first: a system call failed (~io_ok) or the operator declined
Fault(io_ok, decl) ==
    IF fault.kind # "none" THEN fault
    ELSE IF ~io_ok THEN [kind |-> "io", at |-> pc, dev |-> idx]
    ELSE IF decl THEN [kind |-> "declined", at |-> pc, dev |-> idx]
    ELSE fault

\* process::exit(1) after the error was reported
Fail(kind) ==
    /\ pc' = "failed"
    /\ err' = [kind |-> kind, at |-> pc, dev |-> idx]

(***************************************************************************)
(* bcachefs.rs main: args.try_into()                                       *)
(***************************************************************************)
TryInto ==
    /\ pc = "try_into"
    /\ LET r == try_into(Unwrap(opts), rng)
       IN  IF r.err # "none"
           THEN /\ Fail(r.err)
                /\ args' = None
           ELSE /\ args' = Some(r.val)
                /\ pc' = "format_device"
                /\ err' = err
    /\ opts' = None
    /\ rng' = rng + 1
    /\ UNCHANGED <<idx, devs, flags_buf, layout_buf, sb, disk, trace, fault, ret>>
    /\ UNCHANGED <<probe, call, out>>

(***************************************************************************)
(* format.rs: format_device                                                *)
(***************************************************************************)
\* format_device testing force before the encryption options
format_device_branch_force_first(a) ==
    IF ~a.force THEN "probe"
    ELSE IF a.encrypted /\ ~a.no_passphrase THEN "panic"
    ELSE "return"

\* the head of format_device: "panic", "probe" (the check_device loop, then
\* format) or "return"
format_device_branch(a) ==
    IF a.encrypted /\ ~a.no_passphrase THEN "panic"
    ELSE IF ~a.force THEN "probe"
    ELSE "return"

FormatDevice ==
    /\ pc = "format_device"
    /\ LET b == format_device_branch(Args)
       IN  \/ /\ b = "panic"
              /\ pc' = "panicked"
              /\ err' = [kind |-> "Unsupported", at |-> pc, dev |-> 0]
              /\ idx' = idx
           \/ /\ b = "probe"
              /\ pc' = "check_device"
              /\ idx' = 1
              /\ err' = err
           \/ /\ b = "return"
              /\ pc' = "done"
              /\ UNCHANGED <<idx, err>>
    /\ UNCHANGED <<opts, args, devs, flags_buf, layout_buf, sb, disk, trace,
                   fault, ret, rng>>
    /\ UNCHANGED <<probe, call, out>>

\* check_device not looking at the answer
check_device_any_answer(io_ok, found, yn) == IF io_ok THEN "Ok" ELSE "IoError"

\* check_device: io_ok is whether the open and the probe succeeded, found
\* whether the probe has a TYPE value, yn the trimmed line read from stdin
check_device(io_ok, found, yn) ==
    IF ~io_ok THEN "IoError"
    ELSE IF found
    THEN IF yn = "y" \/ yn = "Y" THEN "Ok" ELSE "ExistingFilesystem"
    ELSE "Ok"

\* one pass of format_device's loop over args.devices
CheckDevice ==
    /\ pc = "check_device"
    /\ \E io_ok \in BOOLEAN, found \in BOOLEAN, yn \in Answers :
        LET r == check_device(io_ok, found, yn)
        IN  /\ fault' = Fault(io_ok, io_ok /\ found /\ yn \notin {"y", "Y"})
            /\ IF r # "Ok"
               THEN /\ Fail(r)
                    /\ idx' = idx
               ELSE /\ err' = err
                    /\ IF idx < Len(Args.devices)
                       THEN /\ idx' = idx + 1
                            /\ pc' = "check_device"
                       ELSE /\ idx' = 1
                            /\ pc' = "plan"
    /\ UNCHANGED <<opts, args, devs, flags_buf, layout_buf, sb, disk, trace, ret, rng>>
    /\ UNCHANGED <<probe, call, out>>


(***************************************************************************)
(* format.rs: format                                                       *)
(***************************************************************************)
\* an io::Result dropped instead of propagated
io_try_ignore(io_ok) == "Ok"

\* the `?` on an io::Result
io_try(io_ok) == IF io_ok THEN "Ok" ELSE "IoError"

\* format returns Err and format_device exits
FailFormat(kind) ==
    /\ Fail(kind)
    /\ ret' = "Err"

\* where a loop over n devices goes after the pass for position i
loop_next(i, n, here, after) == IF i < n THEN <<here, i + 1>> ELSE <<after, 1>>

\* a loop over devs running from the last device to the first
nth_dev_rev(ds, i) == ds[Len(ds) + 1 - i].dev_name

\* the device a loop over devs handles at position i
nth_dev(ds, i) == ds[i].dev_name

\* one pass of the planning loop: open, get_blocksize, get_size, bucket plan;
\* the device reports a size of Sizes and a block size of Blks
PlanStep(Sizes, Blks) ==
    /\ pc = "plan"
    /\ \E io_ok \in BOOLEAN, size \in Sizes, block_size \in Blks :
        LET plan == BucketPlan(size, block_size, Args.block_size)
            nx == loop_next(idx, Len(Args.devices), "plan", "check_block_size")
        IN  /\ fault' = Fault(io_ok, FALSE)
            /\ probe' = IF io_ok THEN [size |-> size, block_size |-> block_size]
                        ELSE probe
            /\ IF io_try(io_ok) # "Ok"
               THEN /\ FailFormat("IoError")
                    /\ UNCHANGED <<idx, devs>>
               ELSE IF plan.err # "none"
               THEN /\ FailFormat(plan.err)
                    /\ UNCHANGED <<idx, devs>>
               ELSE /\ devs' = Append(devs, [dev_name |-> Args.devices[idx],
                                             size |-> size,
                                             block_size |-> block_size,
                                             bucket_size |-> plan.val.bucket_size,
                                             nbuckets |-> plan.val.nbuckets])
                    /\ pc' = nx[1]
                    /\ idx' = nx[2]
                    /\ UNCHANGED <<err, ret>>
    /\ UNCHANGED <<opts, args, flags_buf, layout_buf, sb, disk, trace, rng>>
    /\ UNCHANGED <<call, out>>

PlanDevice == PlanStep(DevSizes, DevBlockSizes)

\* the max device block size and the test of args.block_size against it
CheckBlockSize ==
    /\ pc = "check_block_size"
    /\ IF block_size_ok(devs, Args.block_size)
       THEN /\ pc' = "zero"
            /\ idx' = 1
            /\ UNCHANGED <<err, ret>>
       ELSE /\ FailFormat("ConfigError")
            /\ idx' = 0
    /\ UNCHANGED <<opts, args, devs, flags_buf, layout_buf, sb, disk, trace, fault, rng>>
    /\ UNCHANGED <<probe, call, out>>

\* a write pass: open the device at position idx, seek to off, write buf
WritePass(off, buf, here, after) ==
    \E io_ok \in BOOLEAN :
        LET d == nth_dev(devs, idx)
            nx == loop_next(idx, Len(devs), here, after)
        IN  /\ fault' = Fault(io_ok, FALSE)
            /\ disk' = IF io_ok THEN [disk EXCEPT ![d] = pwrite(disk[d], off, buf)]
                       ELSE disk
            /\ trace' = IF io_ok
                        THEN Append(trace, [dev |-> d, off |-> off, len |-> Len(buf)])
                        ELSE trace
            /\ IF io_try(io_ok) # "Ok"
               THEN /\ FailFormat("IoError")
                    /\ idx' = idx
               ELSE /\ pc' = nx[1]
                    /\ idx' = nx[2]
                    /\ err' = err
                    /\ ret' = IF nx[1] = "done" THEN "Ok" ELSE ret

\* one pass of the zeroing loop
ZeroDevice ==
    /\ pc = "zero"
    /\ WritePass(0, Zeros(ZEROS_LEN), "zero", "build_layout")
    /\ UNCHANGED <<opts, args, devs, flags_buf, layout_buf, sb, rng>>
    /\ UNCHANGED <<probe, call, out>>

\* btree_node_size, flags_buf and layout_buf
BuildLayout ==
    /\ pc = "build_layout"
    /\ LET f == build_flags(devs, Args)
           l == build_layout(Args)
       IN  IF f.err # "none"
           THEN /\ FailFormat(f.err)
                /\ UNCHANGED <<flags_buf, layout_buf>>
           ELSE IF l.err # "none"
           THEN /\ FailFormat(l.err)
                /\ flags_buf' = f.val
                /\ layout_buf' = layout_buf
           ELSE /\ flags_buf' = f.val
                /\ layout_buf' = l.val
                /\ pc' = "write_layout"
                /\ UNCHANGED <<err, ret>>
    /\ UNCHANGED <<opts, args, idx, devs, sb, disk, trace, fault, rng>>
    /\ UNCHANGED <<probe, call, out>>

\* one pass of the layout loop
WriteLayout ==
    /\ pc = "write_layout"
    /\ WritePass(LAYOUT_SECTOR * Pow2(SECTOR_SHIFT), layout_buf, "write_layout", "build_sb")
    /\ UNCHANGED <<opts, args, devs, flags_buf, layout_buf, sb, rng>>
    /\ UNCHANGED <<probe, call, out>>

\* sb_buf from set_version to set_u64s
BuildSuperBlock ==
    /\ pc = "build_sb"
    /\ LET r == build_sb(devs, Args, flags_buf, layout_buf, rng)
       IN  /\ sb' = r.val
           /\ rng' = rng + 1 + Len(devs)
           /\ IF r.err # "none"
              THEN FailFormat(r.err)
              ELSE /\ pc' = "write_sb"
                   /\ UNCHANGED <<err, ret>>
    /\ UNCHANGED <<opts, args, idx, devs, flags_buf, layout_buf, disk, trace, fault>>
    /\ UNCHANGED <<probe, call, out>>

\* one pass of the superblock loop: set_dev_idx, set_offset, open, seek, write
WriteSuperBlock ==
    /\ pc = "write_sb"
    /\ LET r == sb_for_dev(sb, idx - 1)
       IN  /\ sb' = r.val
           /\ IF r.err # "none"
              THEN /\ FailFormat(r.err)
                   /\ UNCHANGED <<idx, disk, trace, fault>>
              ELSE WritePass(SB_SECTOR * Pow2(SECTOR_SHIFT), r.val.buffer, "write_sb", "done")
    /\ UNCHANGED <<opts, args, devs, flags_buf, layout_buf, rng>>
    /\ UNCHANGED <<probe, call, out>>

Next ==
    \/ TryInto
    \/ FormatDevice
    \/ CheckDevice
    \/ PlanDevice
    \/ CheckBlockSize
    \/ ZeroDevice
    \/ BuildLayout
    \/ WriteLayout
    \/ BuildSuperBlock
    \/ WriteSuperBlock

Spec == Init /\ [][Next]_vars


(***************************************************************************)
(* try_into over every value of its input: every FormatArgs value over the  *)
(* replica options, those the argument parser's conflicts_with_all and      *)
(* requires rules turn away before try_into included                        *)
(***************************************************************************)
InitCli ==
    \E r \in ReplicaOpts, m \in ReplicaOpts, d \in ReplicaOpts, uuid \in Uuids,
       n \in 1..MaxDevs :
        InitWith(Cli(r, m, d, FALSE, FALSE, FALSE, None, uuid, DEFAULT_BLOCK_SIZE, n))

NextCli == TryInto

SpecCli == InitCli /\ [][NextCli]_vars

(***************************************************************************)
(* The planning loop of format over a two-device list, for every accepted  *)
(* block size and devices of every size and native block size              *)
(***************************************************************************)
\* device sizes in sectors: powers of two, one less, and five times
PlanSizes ==
    UNION {{Pow2(k), Pow2(k) - 1, 5 * Pow2(k)} : k \in 0..MaxSizeExp}
\* native block sizes in sectors: 512, 4096 and 32768 bytes
PlanBlks == {1, 8, 64}

\* format entered: the command line parsed and both devices probed clean
InitPlan ==
    \E bs \in BlockSizes :
        LET o == Cli(None, None, None, FALSE, FALSE, FALSE, None, None, bs, 2)
        IN  /\ opts = None
            /\ args = Some(try_into(o, 0).val)
            /\ pc = "plan"
            /\ idx = 1
            /\ devs = <<>>
            /\ flags_buf = <<>>
            /\ layout_buf = <<>>
            /\ sb = NoSb
            /\ disk = [k \in 1..Len(o.devices) |-> FreshDevice]
            /\ trace = <<>>
            /\ err = NoErr
            /\ fault = NoErr
            /\ ret = "none"
            /\ rng = 1
            /\ probe = <<>>
            /\ call = <<>>
            /\ out = <<>>

PlanProbe == PlanStep(PlanSizes, PlanBlks)

NextPlan == PlanProbe

SpecPlan == InitPlan /\ [][NextPlan]_vars

(***************************************************************************)
(* The planning loop on any input: a library caller's FormatArgs with any  *)
(* u16 as block_size, devices of any size and block size                   *)
(***************************************************************************)
AnyBlockSizes == {0, 1, 511, 512, 4096, 32768, 65535}
AnySizes == {0, 1, 63, 64, 100} \cup PlanSizes
AnyBlks == {0, 1, 8, 64, 256}

InitPlanAny ==
    \E bs \in AnyBlockSizes :
        LET o == Cli(None, None, None, FALSE, FALSE, FALSE, None, None, DEFAULT_BLOCK_SIZE, 2)
        IN  /\ opts = None
            /\ args = Some([try_into(o, 0).val EXCEPT !.block_size = bs])
            /\ pc = "plan"
            /\ idx = 1
            /\ devs = <<>>
            /\ flags_buf = <<>>
            /\ layout_buf = <<>>
            /\ sb = NoSb
            /\ disk = [k \in 1..Len(o.devices) |-> FreshDevice]
            /\ trace = <<>>
            /\ err = NoErr
            /\ fault = NoErr
            /\ ret = "none"
            /\ rng = 1
            /\ probe = <<>>
            /\ call = <<>>
            /\ out = <<>>

PlanAny == PlanStep(AnySizes, AnyBlks)

NextPlanAny == PlanAny

SpecPlanAny == InitPlanAny /\ [][NextPlanAny]_vars

(***************************************************************************)
(* The accessors of super_block.rs called one at a time on a caller's      *)
(* buffer.  call is the call made: the view obj ("sb" SuperBlock, "layout" *)
(* SuperBlockLayout, "member" MemberField, "flags" SuperBlockFlags), the   *)
(* method fn, its arguments (flag: the name of a flag, idx, val, id, arg:   *)
(* the ones the method takes are used), the buffer buf the view is made over and the getter rd *)
(* the caller reads back with afterwards ("none": no read).  out is what   *)
(* came back: the error, the buffer afterwards and the value read.         *)
(***************************************************************************)
SbProbeLen == 244       \* longest buffer of the length runs over a SuperBlock
LayoutProbeLen == 40    \* ... over a SuperBlockLayout
MemberProbeLen == 60    \* ... over a MemberField

\* buffer contents: zeros, all bits set, and mixed bytes
Pattern(len, p) ==
    [k \in 1..len |-> CASE p = 0 -> 0 [] p = 1 -> 255 [] OTHER -> (k * 37 + 11) % 256]

NoFlag == "none"

Call(obj, fn, flag, i, val, id, arg, buf, rd) ==
    [obj |-> obj, fn |-> fn, flag |-> flag, idx |-> i, val |-> val, id |-> id,
     arg |-> arg, buf |-> buf, rd |-> rd]

\* what a setter over a SuperBlock, a setter over a byte buffer and a getter
\* hand back
FromSb(r) == [err |-> r.err, buf |-> r.val.buffer, val |-> <<>>]
FromBuf(r) == [err |-> r.err, buf |-> r.val, val |-> <<>>]
FromGet(r, buf) == [err |-> r.err, buf |-> buf, val |-> r.val]

SbCall(c, self) ==
    CASE c.fn = "version" -> FromGet(get_version(self), c.buf)
      [] c.fn = "version_min" -> FromGet(get_version_min(self), c.buf)
      [] c.fn = "magic" -> FromGet(get_magic(self), c.buf)
      [] c.fn = "uuid" -> FromGet(get_uuid(self), c.buf)
      [] c.fn = "user_uuid" -> FromGet(get_user_uuid(self), c.buf)
      [] c.fn = "label" -> FromGet(get_label(self), c.buf)
      [] c.fn = "block_size" -> FromGet(get_block_size(self), c.buf)
      [] c.fn = "device_index" -> FromGet(get_device_index(self), c.buf)
      [] c.fn = "nr_devices" -> FromGet(get_nr_devices(self), c.buf)
      [] c.fn = "u64s" -> FromGet(get_u64s(self), c.buf)
      [] c.fn = "time_base_lo" -> FromGet(get_time_base_lo(self), c.buf)
      [] c.fn = "time_base_hi" -> FromGet(get_time_base_hi(self), c.buf)
      [] c.fn = "time_base_p" -> FromGet(get_time_base_p(self), c.buf)
      [] c.fn = "flags_u64s" -> FromGet(get_flags_u64s(self), c.buf)
      [] c.fn = "feature" -> FromGet(get_feature(self, c.idx), c.buf)
      [] c.fn = "features" -> FromGet(get_features(self), c.buf)
      [] c.fn = "compat" -> FromGet(get_compat(self), c.buf)
      [] c.fn = "set_version" -> FromSb(set_version(self, c.val))
      [] c.fn = "set_version_min" -> FromSb(set_version_min(self, c.val))
      [] c.fn = "set_magic" -> FromSb(set_magic(self))
      [] c.fn = "set_uuid" -> FromSb(set_uuid(self, c.id))
      [] c.fn = "set_user_uuid" -> FromSb(set_user_uuid(self, c.id))
      [] c.fn = "set_label" -> FromSb(set_label(self, c.arg))
      [] c.fn = "set_seq" -> FromSb(set_seq(self, c.val))
      [] c.fn = "set_offset" -> FromSb(set_offset(self, c.val))
      [] c.fn = "set_block_size" -> FromSb(set_block_size(self, c.val))
      [] c.fn = "set_dev_idx" -> FromSb(set_dev_idx(self, c.val))
      [] c.fn = "set_u64s" -> FromSb(set_u64s(self))
      [] c.fn = "set_nr_devices" -> FromSb(set_nr_devices(self, c.val))
      [] c.fn = "set_time_base_p" -> FromSb(set_time_base_p(self, c.val))
      [] c.fn = "set_feature" -> FromSb(set_feature(self, c.idx, c.val))
      [] c.fn = "set_flags" -> FromSb(set_flags(self, c.arg))
      [] c.fn = "set_layout" -> FromSb(set_layout(self, c.arg))

LayoutCall(c, buf) ==
    CASE c.fn = "magic" -> FromGet(layout_magic(buf), c.buf)
      [] c.fn = "layout_type" -> FromGet(get_layout_type(buf), c.buf)
      [] c.fn = "sb_max_size" -> FromGet(get_sb_max_size(buf), c.buf)
      [] c.fn = "nr_superblocks" -> FromGet(get_nr_superblocks(buf), c.buf)
      [] c.fn = "sb_offset" -> FromGet(get_sb_offset(buf, c.idx), c.buf)
      [] c.fn = "set_magic" -> FromBuf(layout_set_magic(buf))
      [] c.fn = "set_layout_type" -> FromBuf(set_layout_type(buf, c.val))
      [] c.fn = "set_sb_max_size" -> FromBuf(set_sb_max_size(buf, c.val))
      [] c.fn = "set_nr_superblocks" -> FromBuf(set_nr_superblocks(buf, c.val))
      [] c.fn = "set_sb_offset" -> FromBuf(set_sb_offset(buf, c.idx, c.val))

MemberCall(c, buf) ==
    CASE c.fn = "set_uuid" -> FromBuf(member_set_uuid(buf, c.id))
      [] c.fn = "set_n_buckets" -> FromBuf(set_n_buckets(buf, c.val))
      [] c.fn = "set_first_bucket" -> FromBuf(set_first_bucket(buf, c.val))
      [] c.fn = "set_bucket_size" -> FromBuf(set_bucket_size(buf, c.val))
      [] c.fn = "set_flag" -> FromBuf(member_set_flag(buf, MemberFlag[c.flag], c.val))

\* the method c.fn of the view c.obj made over buf
Dispatch(c, buf) ==
    CASE c.obj = "sb" -> SbCall(c, SuperBlock_from(buf))
      [] c.obj = "layout" -> LayoutCall(c, buf)
      [] c.obj = "member" -> MemberCall(c, buf)
      [] c.obj = "flags" -> FromBuf(set_flag(buf, SuperBlockFlag[c.flag], c.val))

SbGetters ==
    {"version", "version_min", "magic", "uuid", "user_uuid", "label", "block_size",
     "device_index", "nr_devices", "u64s", "time_base_lo", "time_base_hi",
     "time_base_p", "flags_u64s", "feature", "features", "compat"}
SbSetters ==
    {"set_version", "set_version_min", "set_magic", "set_uuid", "set_user_uuid",
     "set_label", "set_seq", "set_offset", "set_block_size", "set_dev_idx",
     "set_u64s", "set_nr_devices", "set_time_base_p", "set_feature", "set_flags",
     "set_layout"}
LayoutGetters == {"magic", "layout_type", "sb_max_size", "nr_superblocks", "sb_offset"}
LayoutSetters ==
    {"set_magic", "set_layout_type", "set_sb_max_size", "set_nr_superblocks",
     "set_sb_offset"}
MemberSetters == {"set_uuid", "set_n_buckets", "set_first_bucket", "set_bucket_size"}

\* every accessor on every buffer length up to the probe length of its view:
\* the values written are fixed, the length varies
LengthCalls ==
    {Call("sb", f, NoFlag, 1, 77, UserUuid, Pattern(8, 1), Pattern(len, 2), "none") :
        f \in SbGetters \cup SbSetters, len \in 0..SbProbeLen}
    \cup {Call("layout", f, NoFlag, 1, 77, UserUuid, <<>>, Pattern(len, 2), "none") :
        f \in LayoutGetters \cup LayoutSetters, len \in 0..LayoutProbeLen}
    \cup {Call("member", f, NoFlag, 1, 77, UserUuid, <<>>, Pattern(len, 2), "none") :
        f \in MemberSetters, len \in 0..MemberProbeLen}

\* the values given to a flag whose largest value is max
FlagVals(flag) ==
    LET max == Pow2(flag.hi - flag.lo) - 1
    IN  {0, 1, (2 * max) \div 3, max, max + 1, 2 * max + 1}

SbFlagNames == DOMAIN SuperBlockFlag
MemberFlagNames == DOMAIN MemberFlag

\* set_flag of every named flag on the 64 flag bytes of a superblock and on a
\* 56-byte member, over the three buffer contents
FlagCalls ==
    UNION {{Call("flags", "set_flag", n, 0, v, <<>>, <<>>,
                 Pattern(SB_FEATURES - SB_FLAGS, p), "none") :
               v \in FlagVals(SuperBlockFlag[n]), p \in 0..2} : n \in SbFlagNames}
    \cup UNION {{Call("member", "set_flag", n, 0, v, <<>>, <<>>, Pattern(MEMBER_LEN, p),
                      "none") :
                    v \in FlagVals(MemberFlag[n]), p \in 0..2} : n \in MemberFlagNames}

\* the values written to the scalar fields; a 64-bit value is sampled below
\* 2^31
U8Vals == {0, 1, 127, 128, 255}
U16Vals == {0, 1, 255, 256, 4660, 13398, 65535}
U32Vals == {0, 1, 255, 256, 65536, 305419896, 2147483647}
UuidVals == {MagicBytes, UserUuid, new_v4(1), Pattern(16, 0), Pattern(16, 1), Pattern(16, 2)}
\* bit sets of Features (bits 0..18)
FeatureVals == {0, 1, 255, 256, FeaturesALL, Pow2(19) - 1}
FeatureIdx == {0, 1}
SbOffsetIdx == {0, 1, 60}

\* a setter followed by the getter of the same field, on the buffers format
\* uses (1024 bytes for a superblock, 512 for a layout)
SetGetCalls ==
    {Call("sb", fg[1], NoFlag, 0, v, <<>>, <<>>, Pattern(SB_BUF_LEN, p), fg[2]) :
        fg \in {<<"set_version", "version">>, <<"set_version_min", "version_min">>,
                <<"set_block_size", "block_size">>},
        v \in U16Vals, p \in 0..2}
    \cup {Call("sb", fg[1], NoFlag, 0, v, <<>>, <<>>, Pattern(SB_BUF_LEN, p), fg[2]) :
        fg \in {<<"set_dev_idx", "device_index">>, <<"set_nr_devices", "nr_devices">>},
        v \in U8Vals, p \in 0..2}
    \cup {Call("sb", "set_time_base_p", NoFlag, 0, v, <<>>, <<>>, Pattern(SB_BUF_LEN, p),
               "time_base_p") : v \in U32Vals, p \in 0..2}
    \cup {Call("sb", "set_feature", NoFlag, i, v, <<>>, <<>>, Pattern(SB_BUF_LEN, p),
               "feature") : i \in FeatureIdx, v \in FeatureVals, p \in 0..2}
    \cup {Call("sb", fg[1], NoFlag, 0, 0, u, <<>>, Pattern(SB_BUF_LEN, p), fg[2]) :
        fg \in {<<"set_uuid", "uuid">>, <<"set_user_uuid", "user_uuid">>},
        u \in UuidVals, p \in 0..2}
    \cup {Call(o, "set_magic", NoFlag, 0, 0, <<>>, <<>>, Pattern(LAYOUT_BUF_LEN, p), "magic") :
        o \in {"sb", "layout"}, p \in 0..2}
    \cup {Call("layout", fg[1], NoFlag, 0, v, <<>>, <<>>, Pattern(LAYOUT_BUF_LEN, p), fg[2]) :
        fg \in {<<"set_layout_type", "layout_type">>, <<"set_sb_max_size", "sb_max_size">>,
                <<"set_nr_superblocks", "nr_superblocks">>},
        v \in U8Vals, p \in 0..2}
    \cup {Call("layout", "set_sb_offset", NoFlag, i, v, <<>>, <<>>, Pattern(LAYOUT_BUF_LEN, p),
               "sb_offset") : i \in SbOffsetIdx, v \in U32Vals, p \in 0..2}

\* set_sb_offset at the last index of the 512-byte record and past it, on
\* buffers of the record's length and longer
CapacityIdx == {60, 61, 62}
CapacityLens == {LAYOUT_BUF_LEN, LAYOUT_BUF_LEN + 8, LAYOUT_BUF_LEN + 16}
CapacityCalls ==
    {Call("layout", "set_sb_offset", NoFlag, i, 8, <<>>, <<>>, Pattern(len, p), "none") :
        i \in CapacityIdx, len \in CapacityLens, p \in {0, 2}}

\* every SuperBlock setter on the 1024-byte buffer of format, with feature
\* indices 0..3 and with flags and layout arguments of the fields' lengths and
\* 8 bytes longer
FrameIdx == 0..3
FrameArgLens == {8, SB_FEATURES - SB_FLAGS, SB_FEATURES - SB_FLAGS + 8,
                 LAYOUT_BUF_LEN, LAYOUT_BUF_LEN + 8}
FrameCalls ==
    {Call("sb", f, NoFlag, i, 4660, UserUuid, Pattern(n, 1), Pattern(SB_BUF_LEN, p), "none") :
        f \in SbSetters, i \in FrameIdx, n \in FrameArgLens, p \in {0, 2}}

CodecCalls == LengthCalls \cup FlagCalls \cup SetGetCalls \cup CapacityCalls \cup FrameCalls

NoOut == [err |-> "none", buf |-> <<>>, val |-> <<>>]

InitCodec ==
    /\ opts = None
    /\ args = None
    /\ pc = "call"
    /\ idx = 0
    /\ devs = <<>>
    /\ flags_buf = <<>>
    /\ layout_buf = <<>>
    /\ sb = NoSb
    /\ disk = <<>>
    /\ trace = <<>>
    /\ err = NoErr
    /\ fault = NoErr
    /\ ret = "none"
    /\ rng = 0
    /\ probe = <<>>
    /\ call \in CodecCalls
    /\ out = NoOut

\* the call is made on the caller's buffer
Apply ==
    /\ pc = "call"
    /\ out' = Dispatch(call, call.buf)
    /\ pc' = "returned"
    /\ UNCHANGED <<opts, args, idx, devs, flags_buf, layout_buf, sb, disk, trace, err,
                   fault, ret, rng, probe, call>>

\* after a setter that returned Ok the caller reads the field with its getter
ReadBack ==
    /\ pc = "returned"
    /\ call.rd # "none"
    /\ out.err = "none"
    /\ out' = Dispatch([call EXCEPT !.fn = call.rd], out.buf)
    /\ pc' = "read"
    /\ UNCHANGED <<opts, args, idx, devs, flags_buf, layout_buf, sb, disk, trace, err,
                   fault, ret, rng, probe, call>>

NextCodec == Apply \/ ReadBack

SpecCodec == InitCodec /\ [][NextCodec]_vars

(***************************************************************************)
(* The field list of a SuperBlock built call by call: add_field with       *)
(* payloads of several lengths and set_u64s, in any order, on the buffer   *)
(* sb.  trace is the history of the calls: the method, the field type and  *)
(* the payload length given, the cursor before the call and the error.    *)
(***************************************************************************)
MaxCalls == 3           \* calls made on one SuperBlock

\* Field::Members and Field::Replicas
FieldTypes == {FIELD_MEMBERS, 7}
PayloadLens == {0, 4, 8, 13}
\* room for a header, for two entries, and for more
BuilderLens == {SB_FIELDS + 8, SB_FIELDS + 24, SB_FIELDS + 48}

InitBuilder ==
    /\ opts = None
    /\ args = None
    /\ pc = "build"
    /\ idx = 0
    /\ devs = <<>>
    /\ flags_buf = <<>>
    /\ layout_buf = <<>>
    /\ \E len \in BuilderLens : sb = SuperBlock_from(Pattern(len, 1))
    /\ disk = <<>>
    /\ trace = <<>>
    /\ err = NoErr
    /\ fault = NoErr
    /\ ret = "none"
    /\ rng = 0
    /\ probe = <<>>
    /\ call = <<>>
    /\ out = <<>>

BuilderStep(op, ty, len, r) ==
    /\ sb' = r.val
    /\ trace' = Append(trace, [op |-> op, ty |-> ty, len |-> len,
                               at |-> sb.last_field_offset, err |-> r.err])
    /\ UNCHANGED <<opts, args, pc, idx, devs, flags_buf, layout_buf, disk, err, fault, ret,
                   rng, probe, call, out>>

\* sb.add_field(ty, payload)
AddField ==
    /\ pc = "build"
    /\ Len(trace) < MaxCalls
    /\ \E ty \in FieldTypes, len \in PayloadLens :
        BuilderStep("add_field", ty, len, add_field(sb, ty, Pattern(len, 2)))

\* sb.set_u64s()
SetU64s ==
    /\ pc = "build"
    /\ Len(trace) < MaxCalls
    /\ BuilderStep("set_u64s", 0, 0, set_u64s(sb))

NextBuilder == AddField \/ SetU64s

SpecBuilder == InitBuilder /\ [][NextBuilder]_vars

(***************************************************************************)
(* The runs of format together with the field lists built call by call     *)
(***************************************************************************)
InitFinalize == Init \/ InitBuilder

NextFinalize == Next \/ NextBuilder

SpecFinalize == InitFinalize /\ [][NextFinalize]_vars

(***************************************************************************)
(* Vocabulary of the properties                                            *)
(***************************************************************************)
AllDevs == 1..NDevs

\* no write was issued and every device holds what it held
Untouched == trace = <<>> /\ \A d \in AllDevs : disk[d] = FreshDevice

\* the writes of phase ph to the devices 1..k, in that order
PhaseWrites(ph, k) ==
    [d \in 1..k |->
        [dev |-> d,
         off |-> IF ph = 1 THEN 0
                 ELSE IF ph = 2 THEN LAYOUT_SECTOR * SectorBytes
                 ELSE SB_SECTOR * SectorBytes,
         len |-> IF ph = 1 THEN ZEROS_LEN
                 ELSE IF ph = 2 THEN LAYOUT_BUF_LEN
                 ELSE SB_BUF_LEN]]

\* format returned Ok
Formatted == pc = "done" /\ ret = "Ok"

\* the layout record and the superblock copy a device holds
LayoutOn(d) == ReadSector(disk[d], LAYOUT_SECTOR)
SbOn(d) == ReadSector(disk[d], SB_SECTOR) \o ReadSector(disk[d], SB_SECTOR + 1)
HasLayout(d) == disk[d][LAYOUT_SECTOR].kind = "data"
HasSb(d) == disk[d][SB_SECTOR].kind = "data"

\* a superblock copy with its offset and dev_idx fields blanked
SbMasked(b) == WriteAt(WriteAt(b, SB_OFFSET, Zeros(8)), SB_DEV_IDX, <<0>>)

(***************************************************************************)
(* C1: no byte is written to any device until every device of the list was *)
(* probed and planned successfully and the block-size test passed; a run   *)
(* that fails in planning or in the block-size test leaves every device    *)
(* as it was.                                                              *)
(***************************************************************************)
C1_ValidateAllThenWrite ==
    /\ ~Untouched =>
        /\ args # None
        /\ Len(devs) = NDevs
        /\ \A k \in 1..Len(devs) :
            /\ devs[k].dev_name = k
            /\ devs[k].size >= MIN_NR_NBUCKETS * Max(Args.block_size, devs[k].block_size * 512)
            /\ devs[k].nbuckets >= MIN_NR_NBUCKETS
            /\ devs[k].nbuckets * devs[k].bucket_size <= devs[k].size
            /\ devs[k].block_size <= Args.block_size \div 512
    /\ (pc = "failed" /\ err.at \in {"plan", "check_block_size"}) => Untouched

\* planning failed on a later device of the list: nothing was written
C1_Witness ==
    /\ pc = "failed"
    /\ err.kind = "ConfigError"
    /\ err.at = "plan"
    /\ err.dev >= 2
    /\ Untouched

\* the block-size test failed after every device was planned
C1_WitnessBlockSize ==
    pc = "failed" /\ err.at = "check_block_size" /\ Len(devs) >= 2 /\ Untouched

(***************************************************************************)
(* C2: when force is not set, the probe found a filesystem and the         *)
(* operator declined, the run has ended with the existing-filesystem error *)
(* and no device of the list has been modified.                            *)
(***************************************************************************)
C2_DeclineAbortsUntouched ==
    fault.kind = "declined" =>
        /\ pc = "failed"
        /\ err = [kind |-> "ExistingFilesystem", at |-> "check_device", dev |-> fault.dev]
        /\ ~Args.force
        /\ Untouched

\* the operator declined at a later device, after the earlier ones passed
C2_Witness ==
    /\ fault.kind = "declined"
    /\ fault.dev >= 2
    /\ pc = "failed"
    /\ Untouched

(***************************************************************************)
(* C3 (as claimed): a run with force set that returns successfully has     *)
(* written the layout and the superblock to every device.                  *)
(***************************************************************************)
C3_ForceStillFormats ==
    (pc = "done" /\ Args.force) => \A d \in AllDevs : HasLayout(d) /\ HasSb(d)

(***************************************************************************)
(* C4: when encrypted is requested and no_passphrase is not set,           *)
(* format_device stops with the unsupported-encryption failure before any  *)
(* device is probed or written.                                            *)
(***************************************************************************)
C4_EncryptionStopsFirst ==
    (args # None /\ Args.encrypted /\ ~Args.no_passphrase) =>
        /\ pc \in {"format_device", "panicked"}
        /\ pc = "panicked" => err.kind = "Unsupported"
        /\ fault.kind = "none"
        /\ devs = <<>>
        /\ Untouched

\* the run stopped on the encryption test with force not set
C4_Witness ==
    /\ pc = "panicked"
    /\ err.kind = "Unsupported"
    /\ Args.encrypted /\ ~Args.no_passphrase /\ ~Args.force
    /\ Untouched

(***************************************************************************)
(* C5 (as claimed): no run with encrypted set writes a superblock to a     *)
(* device or ends successfully.                                            *)
(***************************************************************************)
C5_EncryptedNeverProceeds ==
    (args # None /\ Args.encrypted) =>
        /\ pc # "done"
        /\ \A d \in AllDevs : ~HasSb(d)

(***************************************************************************)
(* C6: the write phases never interleave: the writes are ordered by phase  *)
(* (zeroing, layout, superblock), within a phase the k-th write goes to    *)
(* the k-th device of the list, and a phase starts only when the phase     *)
(* before it has covered every device.                                     *)
(***************************************************************************)
C6_PhasesDoNotInterleave ==
    \E z \in 0..NDevs, l \in 0..NDevs, s \in 0..NDevs :
        /\ trace = PhaseWrites(1, z) \o PhaseWrites(2, l) \o PhaseWrites(3, s)
        /\ l > 0 => z = NDevs
        /\ s > 0 => l = NDevs

\* a run over several devices wrote all three phases
C6_Witness ==
    Formatted /\ NDevs >= 3 /\ Len(trace) = 3 * NDevs

(***************************************************************************)
(* C7: after format returned Ok, every device holds a superblock copy; the *)
(* copies of any two devices are byte-identical outside the offset and     *)
(* dev_idx fields, and the copy on device i carries dev_idx i.             *)
(***************************************************************************)
C7_CopiesAgree ==
    Formatted =>
        \A i \in AllDevs :
            /\ HasSb(i)
            /\ SbOn(i)[SB_DEV_IDX + 1] = i - 1
            /\ \A j \in AllDevs : SbMasked(SbOn(i)) = SbMasked(SbOn(j))

\* several devices of different geometry were formatted
C7_Witness ==
    /\ Formatted
    /\ NDevs >= 3
    /\ devs[1].nbuckets # devs[2].nbuckets
    /\ \A d \in AllDevs : HasSb(d)

(***************************************************************************)
(* C8: after format returned Ok, every device holds the same layout record *)
(* at sector 7, the record is embedded at bytes 240..752 of the superblock *)
(* written at sector 8, and it has layout_type 0, nr_superblocks 1 and     *)
(* sb_offset[0] = 8, the sector of the superblock write and the value of   *)
(* the superblock's offset field.                                          *)
(***************************************************************************)
C8_LayoutEverywhere ==
    Formatted =>
        \A d \in AllDevs :
            /\ HasLayout(d) /\ HasSb(d)
            /\ LayoutOn(d) = LayoutOn(1)
            /\ Slice(SbOn(d), 240, 752) = LayoutOn(d)
            /\ Slice(LayoutOn(d), 0, 16) = MagicBytes
            /\ LayoutOn(d)[16 + 1] = 0
            /\ LayoutOn(d)[18 + 1] = 1
            /\ LEValue(Slice(LayoutOn(d), 24, 32)) = 8
            /\ LEValue(Slice(SbOn(d), 104, 112)) = 8
            /\ \E k \in 1..Len(trace) :
                trace[k] = [dev |-> d, off |-> 8 * 512, len |-> SB_BUF_LEN]
            /\ \E k \in 1..Len(trace) :
                trace[k] = [dev |-> d, off |-> 7 * 512, len |-> 512]

\* a run over several devices returned Ok
C8_Witness ==
    Formatted /\ NDevs >= 2 /\ \A d \in AllDevs : HasLayout(d)

(***************************************************************************)
(* C9: when a write fails on device k in the layout or the superblock      *)
(* phase the run has ended with the I/O error: the writes issued are those *)
(* before the failed one and no other, and the devices before k keep what  *)
(* was written to them.                                                    *)
(***************************************************************************)
C9_WriteFailureStops ==
    (fault.kind = "io" /\ fault.at \in {"write_layout", "write_sb"}) =>
        LET k == fault.dev
        IN  /\ pc = "failed"
            /\ ret = "Err"
            /\ err = [kind |-> "IoError", at |-> fault.at, dev |-> k]
            /\ trace = IF fault.at = "write_layout"
                       THEN PhaseWrites(1, NDevs) \o PhaseWrites(2, k - 1)
                       ELSE PhaseWrites(1, NDevs) \o PhaseWrites(2, NDevs)
                            \o PhaseWrites(3, k - 1)
            /\ \A d \in AllDevs :
                /\ HasLayout(d) <=> (fault.at = "write_sb" \/ d < k)
                /\ HasSb(d) <=> (fault.at = "write_sb" /\ d < k)

\* the superblock write failed on a later device
C9_Witness ==
    /\ fault.kind = "io" /\ fault.at = "write_sb" /\ fault.dev >= 2
    /\ pc = "failed"
    /\ HasSb(1) /\ ~HasSb(fault.dev)

(***************************************************************************)
(* C10: replica resolution.  Only replicas = r gives (r, r); replicas      *)
(* absent with metadata = m and data = d gives (m, d); all absent gives    *)
(* (1, 1); every other combination is a ConfigError; and a resolved pair   *)
(* is accepted only when both counts are at most the number of devices.    *)
(***************************************************************************)
ReplicasExpected(r, m, d) ==
    IF r # None /\ m = None /\ d = None THEN <<r[1], r[1]>>
    ELSE IF r = None /\ m # None /\ d # None THEN <<m[1], d[1]>>
    ELSE IF r = None /\ m = None /\ d = None THEN <<1, 1>>
    ELSE <<>>

C10_ReplicaResolution ==
    [][pc = "try_into" =>
        LET o == Unwrap(opts)
            e == ReplicasExpected(o.replicas, o.metadata_replicas, o.data_replicas)
            n == Len(o.devices)
        IN  IF e # <<>> /\ e[1] <= n /\ e[2] <= n
            THEN /\ pc' = "format_device"
                 /\ args' # None
                 /\ args'[1].metadata_replicas = e[1]
                 /\ args'[1].data_replicas = e[2]
            ELSE /\ pc' = "failed"
                 /\ err'.kind = "ConfigError"
                 /\ args' = None]_vars

\* (None, Some(2), Some(3)) with 3 devices resolved to (2, 3)
C10_Witness ==
    /\ pc = "format_device"
    /\ Len(Args.devices) = 3
    /\ Args.metadata_replicas = 2
    /\ Args.data_replicas = 3


(***************************************************************************)
(* C11 (as claimed): the bucket planner returns what the six-step          *)
(* reference algorithm returns on (S, nb, rb), all in sectors: whenever a  *)
(* device was read and planned, the run failed with ConfigError exactly    *)
(* when the reference fails, and otherwise the device was planned with the *)
(* reference's bucket size and bucket count.                               *)
(***************************************************************************)
RECURSIVE RefHalve(_, _)
RefHalve(S, bucket) == IF S < 64 * bucket THEN RefHalve(S, bucket \div 2) ELSE bucket

RECURSIVE RefLog2(_)
RefLog2(x) == IF x < 2 THEN 0 ELSE 1 + RefLog2(x \div 2)

\* <<bucket, nbuckets>>, or <<>> for a failure
RefPlan(S, nb, rb) ==
    LET bucket1 == IF rb > nb THEN rb ELSE nb
        bucket3 == IF bucket1 > 512 THEN bucket1 ELSE 512
        scale == IF RefLog2(S \div (64 * rb)) \div 4 > 1
                 THEN RefLog2(S \div (64 * rb)) \div 4 ELSE 1
        bucket4 == IF S >= 64 * bucket3
                   THEN (IF bucket3 * scale < 2048 THEN bucket3 * scale ELSE 2048)
                   ELSE RefHalve(S, bucket3)
    IN  IF S < 64 * bucket1 THEN <<>>
        ELSE IF bucket4 * 512 < rb \/ S \div bucket4 < 64 THEN <<>>
        ELSE <<bucket4, S \div bucket4>>

\* the device read last was planned, or made the run fail in planning
Planned == probe # <<>> /\ fault.kind = "none" /\ (pc = "failed" => err.at = "plan")

C11_PlannerMatchesReference ==
    (Planned /\ Args.block_size % 512 = 0) =>
        LET r == RefPlan(probe.size, probe.block_size, Args.block_size \div 512)
        IN  IF r = <<>>
            THEN pc = "failed" /\ err.kind = "ConfigError"
            ELSE /\ pc # "failed"
                 /\ devs[Len(devs)].size = probe.size
                 /\ devs[Len(devs)].bucket_size = r[1]
                 /\ devs[Len(devs)].nbuckets = r[2]

(***************************************************************************)
(* C12: the plan of a device depends on (S, nb, rb) alone: two devices of  *)
(* a run with the same size and native block size have the same plan; and  *)
(* every planned device has nbuckets * bucket_size <= S and nbuckets >= 64. *)
(***************************************************************************)
C12_PlanDeterministicAndFits ==
    \A k \in 1..Len(devs) :
        /\ devs[k].nbuckets * devs[k].bucket_size <= devs[k].size
        /\ devs[k].nbuckets >= 64
        /\ \A l \in 1..Len(devs) :
            (devs[l].size = devs[k].size /\ devs[l].block_size = devs[k].block_size)
                => /\ devs[l].bucket_size = devs[k].bucket_size
                   /\ devs[l].nbuckets = devs[k].nbuckets

\* two equal devices were planned, of a size that is no multiple of the bucket
C12_Witness ==
    /\ Len(devs) = 2
    /\ devs[1].size = devs[2].size
    /\ devs[1].block_size = devs[2].block_size
    /\ devs[1].size % devs[1].bucket_size # 0

(***************************************************************************)
(* C13: every planned device has a bucket size of at least 512.            *)
(***************************************************************************)
C13_BucketAtLeast512 ==
    \A k \in 1..Len(devs) : devs[k].bucket_size >= 512

\* a device large enough for the scale to exceed 1 was planned
C13_Witness ==
    /\ Len(devs) >= 1
    /\ devs[1].size >= Pow2(23)
    /\ Args.block_size = DEFAULT_BLOCK_SIZE
    /\ devs[1].bucket_size > 512

C14_WitnessRejected ==
    /\ Planned /\ Args.block_size = 512
    /\ probe = [size |-> 64 * 512 - 1, block_size |-> 1]
    /\ pc = "failed"

(***************************************************************************)
(* C15: the run fails in the block-size test, with ConfigError, exactly     *)
(* when the requested block size is smaller than the largest native block  *)
(* size of the devices, both in bytes; a run that got past the test has a   *)
(* requested block size of at least every device's native block size.      *)
(***************************************************************************)
C15_BlockSizeTest ==
    LET tested == Len(devs) = NDevs /\ pc # "check_block_size" /\ pc # "plan"
        smaller == \E k \in 1..Len(devs) : Args.block_size < devs[k].block_size * 512
    IN  /\ (pc = "failed" /\ err.at = "check_block_size") =>
            (err.kind = "ConfigError" /\ smaller /\ Len(devs) = NDevs)
        /\ (tested /\ smaller) => (pc = "failed" /\ err.at = "check_block_size")

\* the test failed on a list whose first device alone would pass
C15_Witness ==
    /\ pc = "failed" /\ err.at = "check_block_size"
    /\ Len(devs) >= 2
    /\ devs[1].block_size * 512 <= Args.block_size

\* the test passed with a device of a 4096-byte native block size
C15_WitnessPassed ==
    /\ pc = "zero"
    /\ \E k \in 1..Len(devs) : devs[k].block_size = 8

(***************************************************************************)
(* C16 (as claimed): a run with default parameters over devices of 10 MiB  *)
(* (20480 sectors, native block size one sector) and no failing system     *)
(* call does not fail, and when it is done every superblock copy has       *)
(* nr_devices = n and a Members field of n 56-byte entries in device order *)
(* with pairwise distinct uuids, first_bucket 0 and the n_buckets and      *)
(* bucket_size planned for the device.                                     *)
(***************************************************************************)
\* entry i (0-based) of the Members field of the copy on device d
MemberOn(d, i) ==
    Slice(SbOn(d), SB_FIELDS + 8 + MEMBER_LEN * i, SB_FIELDS + 8 + MEMBER_LEN * (i + 1))

MembersAsClaimed(d) ==
    /\ HasSb(d)
    /\ SbOn(d)[SB_NR_DEVS + 1] = NDevs
    /\ LEValue(Slice(SbOn(d), SB_FIELDS, SB_FIELDS + 4)) = (MEMBER_LEN * NDevs + 8) \div 8
    /\ LEValue(Slice(SbOn(d), SB_FIELDS + 4, SB_FIELDS + 8)) = FIELD_MEMBERS
    /\ \A i \in 0..(NDevs - 1) :
        /\ LEValue(Slice(MemberOn(d, i), 16, 24)) = devs[i + 1].nbuckets
        /\ LEValue(Slice(MemberOn(d, i), 24, 26)) = 0
        /\ LEValue(Slice(MemberOn(d, i), 26, 28)) = devs[i + 1].bucket_size
        /\ \A j \in 0..(NDevs - 1) :
            i # j => Slice(MemberOn(d, i), 0, 16) # Slice(MemberOn(d, j), 0, 16)

DefaultArgs ==
    /\ args # None
    /\ Args.block_size = DEFAULT_BLOCK_SIZE
    /\ Args.metadata_replicas = 1 /\ Args.data_replicas = 1
    /\ ~Args.force /\ ~Args.encrypted

C16_DefaultFormatSucceeds ==
    (/\ DefaultArgs
     /\ fault.kind = "none"
     /\ probe # <<>> => probe = [size |-> 20480, block_size |-> 1]
     /\ \A k \in 1..Len(devs) : devs[k].size = 20480 /\ devs[k].block_size = 1) =>
        /\ pc # "failed"
        /\ Formatted => \A d \in AllDevs : MembersAsClaimed(d)

\* the runs that do return Ok have the Members field as claimed
MembersWhenFormatted ==
    Formatted => \A d \in AllDevs : MembersAsClaimed(d)


(***************************************************************************)
(* The bit-packed flags                                                    *)
(***************************************************************************)
\* a set_flag call has returned
FlagCalled == pc = "returned" /\ call.fn = "set_flag"
\* the flag of the call and the offset of word 0 of its flag words
CalledFlag == IF call.obj = "flags" THEN SuperBlockFlag[call.flag] ELSE MemberFlag[call.flag]
CalledBase == IF call.obj = "flags" THEN 0 ELSE MEMBER_FLAGS
CalledMax == Pow2(CalledFlag.hi - CalledFlag.lo) - 1
\* bit b of byte j (1-based) of a buffer
ByteBit(buf, j, b) == (buf[j] \div Pow2(b)) % 2
\* the position of bit b of byte j in the called flag's word (negative or
\* above 63: another word)
PosInWord(j, b) == 8 * (j - 1 - CalledBase - 8 * CalledFlag.w) + b
InFlagRange(j, b) == CalledFlag.lo <= PosInWord(j, b) /\ PosInWord(j, b) < CalledFlag.hi

\* C17: set_flag of a named flag (word w, bits lo..hi) of SuperBlockFlags or
\* MemberField with a value above 2^(hi-lo) - 1 fails with Einval and leaves
\* every byte of the buffer as it was; with a value in range it succeeds, the
\* bits lo..hi of word w become the bits of the value, and every other bit of
\* the buffer is unchanged.
C17_SetFlagContract ==
    FlagCalled =>
        /\ Len(out.buf) = Len(call.buf)
        /\ call.val > CalledMax => out.err = "Einval" /\ out.buf = call.buf
        /\ call.val <= CalledMax =>
            /\ out.err = "none"
            /\ \A j \in 1..Len(call.buf), b \in 0..7 :
                ByteBit(out.buf, j, b) =
                    IF InFlagRange(j, b)
                    THEN (call.val \div Pow2(PosInWord(j, b) - CalledFlag.lo)) % 2
                    ELSE ByteBit(call.buf, j, b)

\* a value in range, neither 0 nor the largest, has been stored over set bits
C17_Witness ==
    /\ FlagCalled
    /\ out.err = "none"
    /\ 0 < call.val /\ call.val < CalledMax
    /\ call.buf = Pattern(Len(call.buf), 1)
    /\ out.buf # call.buf

\* a value one above the largest has been refused
C17_WitnessRefused ==
    /\ FlagCalled
    /\ call.val = CalledMax + 1
    /\ out.err = "Einval"
    /\ call.buf = Pattern(Len(call.buf), 2)

\* the catalog the called flag is from
CalledCatalog == IF call.obj = "flags" THEN SuperBlockFlag ELSE MemberFlag
\* bit k of 64-bit word w of the flag words of the called view
WordBit(buf, w, k) == BitOf(Slice(buf, CalledBase + 8 * w, CalledBase + 8 * w + 8), k)

\* C18: bit isolation.  After a set_flag of the named flag A that returned Ok,
\* every other named flag B of the same catalog in the same 64-bit word reads
\* as before: no bit of B's range has changed, whatever the buffer held.
C18_FlagsIsolated ==
    (FlagCalled /\ out.err = "none") =>
        \A n \in DOMAIN CalledCatalog :
            (n # call.flag /\ CalledCatalog[n].w = CalledFlag.w) =>
                \A k \in CalledCatalog[n].lo .. CalledCatalog[n].hi - 1 :
                    WordBit(out.buf, CalledFlag.w, k) = WordBit(call.buf, CalledFlag.w, k)

(***************************************************************************)
(* Round trips                                                             *)
(***************************************************************************)
\* the n little-endian bytes of a value below 2^31
Digits(v, n) == [k \in 1..n |-> IF k <= 4 THEN (v \div Pow2(8 * (k - 1))) % 256 ELSE 0]

\* what the getter of the field written by the call has to return: the value
\* written, a 4- or 8-byte value as its little-endian bytes
Written ==
    CASE call.rd \in {"uuid", "user_uuid"} -> call.id
      [] call.rd = "magic" -> MagicBytes
      [] call.rd = "time_base_p" -> Digits(call.val, 4)
      [] call.rd \in {"feature", "sb_offset"} -> Digits(call.val, 8)
      [] OTHER -> call.val

\* the number held in bits lo..hi of word w of the flag words
RECURSIVE FlagRead(_, _, _, _)
FlagRead(buf, w, lo, hi) ==
    IF lo >= hi THEN 0 ELSE WordBit(buf, w, lo) + 2 * FlagRead(buf, w, lo + 1, hi)

\* C19: round trip.  On the buffers format uses, the setter of a scalar field
\* of SuperBlock or SuperBlockLayout returns Ok and the field's getter then
\* returns the value that was set (version, version_min, magic, uuid,
\* user_uuid, block_size, dev_idx, nr_devices, time_base_p, feature,
\* layout_type, sb_max_size, nr_superblocks, sb_offset); after set_flag with a
\* value in range the flag's bit range reads as that value.
C19_RoundTrip ==
    /\ (pc = "returned" /\ call.rd # "none") => out.err = "none"
    /\ pc = "read" => out.err = "none" /\ out.val = Written
    /\ (FlagCalled /\ call.val <= CalledMax) =>
        /\ out.err = "none"
        /\ FlagRead(out.buf, CalledFlag.w, CalledFlag.lo, CalledFlag.hi) = call.val

\* a two-byte value with distinct bytes has been read back over set bits
C19_Witness ==
    /\ pc = "read"
    /\ call.fn = "set_version"
    /\ call.val = 4660
    /\ call.buf = Pattern(SB_BUF_LEN, 1)
    /\ out.val = 4660

\* the last superblock offset of a layout has been read back
C19_WitnessOffset ==
    /\ pc = "read"
    /\ call.fn = "set_sb_offset"
    /\ call.idx = 60
    /\ call.val = 305419896
    /\ out.val = <<120, 86, 52, 18, 0, 0, 0, 0>>

\* a twelve-bit flag has been set to a value with mixed bits
C19_WitnessFlag ==
    /\ FlagCalled
    /\ call.flag = "PROMOTE_TARGET"
    /\ call.val = 2730
    /\ out.err = "none"

(***************************************************************************)
(* Buffer lengths                                                          *)
(***************************************************************************)
\* the end (exclusive) of the byte range of the buffer that the called
\* accessor reads or writes
RangeEnd ==
    CASE call.obj = "sb" ->
            (CASE call.fn \in {"version", "set_version"} -> 18
               [] call.fn \in {"version_min", "set_version_min"} -> 20
               [] call.fn \in {"magic", "set_magic"} -> 40
               [] call.fn \in {"uuid", "set_uuid"} -> 56
               [] call.fn \in {"user_uuid", "set_user_uuid"} -> 72
               [] call.fn \in {"label", "set_label"} -> 104
               [] call.fn = "set_offset" -> 112
               [] call.fn = "set_seq" -> 120
               [] call.fn \in {"block_size", "set_block_size"} -> 122
               [] call.fn \in {"device_index", "set_dev_idx"} -> 123
               [] call.fn \in {"nr_devices", "set_nr_devices"} -> 124
               [] call.fn \in {"u64s", "set_u64s"} -> 128
               [] call.fn = "time_base_lo" -> 136
               [] call.fn = "time_base_hi" -> 140
               [] call.fn \in {"time_base_p", "set_time_base_p"} -> 144
               [] call.fn = "flags_u64s" -> 208
               [] call.fn = "set_flags" -> 144 + Len(call.arg)
               [] call.fn \in {"feature", "set_feature"} -> 208 + 8 * call.idx + 8
               [] call.fn = "features" -> 224
               [] call.fn = "compat" -> 240
               [] call.fn = "set_layout" -> 240 + Len(call.arg))
      [] call.obj = "layout" ->
            (CASE call.fn \in {"magic", "set_magic"} -> 16
               [] call.fn \in {"layout_type", "set_layout_type"} -> 17
               [] call.fn \in {"sb_max_size", "set_sb_max_size"} -> 18
               [] call.fn \in {"nr_superblocks", "set_nr_superblocks"} -> 19
               [] call.fn \in {"sb_offset", "set_sb_offset"} -> 24 + 8 * call.idx + 8)
      [] call.obj = "member" ->
            (CASE call.fn = "set_uuid" -> 16
               [] call.fn = "set_n_buckets" -> 24
               [] call.fn = "set_first_bucket" -> 26
               [] call.fn = "set_bucket_size" -> 28)

\* an accessor other than set_flag has returned from a call of the length runs
LengthCalled == pc = "returned" /\ call.fn # "set_flag" /\ call.rd = "none"

\* C20: every getter and setter of SuperBlock, SuperBlockLayout and MemberField,
\* on a buffer of any length, returns Exhausted exactly when the buffer is
\* shorter than the end of the byte range it reads or writes and returns Ok
\* otherwise; no call indexes outside the buffer.
C20_LengthContract ==
    LengthCalled =>
        /\ out.err \in {"none", "Exhausted"}
        /\ out.err = "Exhausted" <=> Len(call.buf) < RangeEnd

\* a setter of SuperBlockLayout has returned
LayoutSetterCalled ==
    pc = "returned" /\ call.obj = "layout" /\ call.fn \in LayoutSetters /\ call.rd = "none"

\* C21: every SuperBlockLayout setter returns Exhausted when the buffer of the
\* record is shorter than 512 bytes, and set_sb_offset(idx, v) returns
\* Exhausted when 24 + 8*idx + 8 > 512, whatever the length of the buffer.
C21_LayoutSettersNeedRecord ==
    LayoutSetterCalled =>
        /\ Len(call.buf) < LAYOUT_SB_OFFSET_END => out.err = "Exhausted"
        /\ (call.fn = "set_sb_offset"
            /\ LAYOUT_SB_OFFSET + 8 * call.idx + 8 > LAYOUT_SB_OFFSET_END)
           => out.err = "Exhausted"

(***************************************************************************)
(* The field list                                                          *)
(***************************************************************************)
\* the last call of the history
LastCall == trace[Len(trace)]
\* the positions in the history of the add_field calls that returned Ok
Appended == {k \in 1..Len(trace) : trace[k].op = "add_field" /\ trace[k].err = "none"}
\* n rounded up to a multiple of 8
Padded(n) == 8 * ((n + 7) \div 8)
\* the buffer with an entry of type ty and the given payload at cursor c: the
\* entry's length in u64s and the type, 4 bytes each, then the payload
WithEntry(buf, c, ty, payload) ==
    [j \in 1..Len(buf) |->
        LET o == j - 1 - (SB_FIELDS + c)
        IN  IF 0 <= o /\ o < 4 THEN Digits(Padded(Len(payload) + 8) \div 8, 4)[o + 1]
            ELSE IF 4 <= o /\ o < 8 THEN Digits(ty, 4)[o - 3]
            ELSE IF 8 <= o /\ o < 8 + Len(payload) THEN payload[o - 7]
            ELSE buf[j]]

\* C22: add_field either succeeds or changes nothing.  When the buffer cannot
\* hold the 8-byte header and the payload at the cursor it returns Exhausted
\* and leaves buffer and cursor as they were; otherwise it returns Ok, writes
\* the header (length of the entry in u64s, then the type) at byte 752 + cursor
\* and the payload after it, changes no other byte, and advances the cursor by
\* the length of the entry padded to a multiple of 8 bytes.
C22_AddFieldAtomic ==
    [][(Len(trace') = Len(trace) + 1 /\ trace'[Len(trace')].op = "add_field") =>
        LET e == trace'[Len(trace')]
        IN  IF Len(sb.buffer) < SB_FIELDS + sb.last_field_offset + 8 + e.len
            THEN e.err = "Exhausted" /\ sb' = sb
            ELSE /\ e.err = "none"
                 /\ sb'.buffer = WithEntry(sb.buffer, sb.last_field_offset, e.ty,
                                           Pattern(e.len, 2))
                 /\ sb'.last_field_offset = sb.last_field_offset + Padded(e.len + 8)]_vars

\* the u64s field of the superblock
U64sField == LEValue(Slice(sb.buffer, SB_U64S, SB_U64S + 4))
\* the u64s stored in the header of the entry appended by call k
HeaderU64s(k) == LEValue(Slice(sb.buffer, SB_FIELDS + trace[k].at, SB_FIELDS + trace[k].at + 4))
\* the sum of the headers' u64s over the entries appended by the calls 1..k
RECURSIVE HeaderSum(_)
HeaderSum(k) ==
    IF k = 0 THEN 0
    ELSE (IF k \in Appended THEN HeaderU64s(k) ELSE 0) + HeaderSum(k - 1)
\* the bytes of the field list, headers included, after the calls 1..k
RECURSIVE ListBytes(_)
ListBytes(k) ==
    IF k = 0 THEN 0
    ELSE (IF k \in Appended THEN trace[k].len + 8 ELSE 0) + ListBytes(k - 1)
\* successful add_field calls, then a successful set_u64s
Finalized ==
    /\ Len(trace) >= 2
    /\ LastCall.op = "set_u64s" /\ LastCall.err = "none"
    /\ \A k \in 1..(Len(trace) - 1) : k \in Appended

\* C23: after successful add_field calls (payloads of any length) followed by
\* set_u64s, the u64s field of the superblock is the sum of the u64s stored in
\* the headers of the appended entries, which is the length of the field list
\* (payloads and 8-byte headers) in units of 8 bytes.
C23_U64sIsSumOfEntries ==
    Finalized =>
        /\ U64sField = HeaderSum(Len(trace))
        /\ 8 * U64sField = ListBytes(Len(trace))

\* the u64s field, and the u64s and type of the first entry, of a superblock
\* copy
U64sOf(b) == LEValue(Slice(b, SB_U64S, SB_U64S + 4))
FirstEntryU64s(b) == LEValue(Slice(b, SB_FIELDS, SB_FIELDS + 4))
FirstEntryType(b) == LEValue(Slice(b, SB_FIELDS + 4, SB_FIELDS + 8))
\* the u64s of a field list that holds the Members field of n devices
MembersU64s(n) == (MEMBER_LEN * n + 8) \div 8

\* a set_u64s that returned Ok, then add_field calls only, one at least of
\* them successful
FinalizedEarly ==
    \E k \in 1..Len(trace) :
        /\ trace[k].op = "set_u64s" /\ trace[k].err = "none"
        /\ \A j \in (k + 1)..Len(trace) : trace[j].op = "add_field"
        /\ \E j \in (k + 1)..Len(trace) : j \in Appended

\* C24: ordering of the finalization.  In a run of format the superblock is
\* finalized once, after the Members field was appended and before the first
\* superblock write: when the writes begin the u64s field covers the Members
\* entry, it does not change during the writes, and every copy on a device
\* holds that value and the Members entry.  For the builder in general, a
\* set_u64s before the last add_field leaves a u64s value strictly smaller than
\* the length of the field list.
C24_FinalizeOrdering ==
    /\ pc = "write_sb" =>
        /\ U64sOf(sb.buffer) = MembersU64s(NDevs)
        /\ sb.last_field_offset = 8 * MembersU64s(NDevs)
        /\ FirstEntryType(sb.buffer) = FIELD_MEMBERS
    /\ pc \in {"write_sb", "done", "failed"} =>
        \A d \in AllDevs :
            HasSb(d) =>
                /\ U64sOf(SbOn(d)) = MembersU64s(NDevs)
                /\ FirstEntryU64s(SbOn(d)) = MembersU64s(NDevs)
                /\ FirstEntryType(SbOn(d)) = FIELD_MEMBERS
    /\ (pc = "build" /\ FinalizedEarly) => 8 * U64sField < ListBytes(Len(trace))

\* a run of format has written a finalized superblock to its last device
C24_Witness ==
    /\ Formatted
    /\ NDevs >= 2
    /\ U64sOf(SbOn(NDevs)) = MembersU64s(NDevs)

\* a builder was finalized after its first entry and a second entry appended
C24_WitnessEarly ==
    /\ pc = "build"
    /\ FinalizedEarly
    /\ Len(trace) = 3
    /\ trace[1].op = "add_field" /\ trace[2].op = "set_u64s" /\ U64sField > 0

(***************************************************************************)
(* Zeroing                                                                 *)
(***************************************************************************)
\* the write of the 4096 zero bytes to device d
ZeroWrite(d) == [dev |-> d, off |-> 0, len |-> SB_SECTOR * SectorBytes]

\* C25: in every run that reaches the write phases, the first 8 sectors of
\* every device are overwritten with zeros before a layout or a superblock is
\* written to any device; after a format that returned Ok, sectors 0 to 6 of
\* every device are zero whatever they held before.
C25_ZeroedFirst ==
    /\ \A k \in 1..Len(trace) :
        trace[k].off # 0 =>
            \A d \in AllDevs : \E j \in 1..(k - 1) : trace[j] = ZeroWrite(d)
    /\ \A d \in AllDevs :
        (HasLayout(d) \/ HasSb(d) \/ Formatted) =>
            \A s \in 0..(LAYOUT_SECTOR - 1) : disk[d][s] = ZeroSector

\* three devices that held old data are formatted
C25_Witness ==
    /\ Formatted
    /\ NDevs = 3
    /\ \A d \in AllDevs : disk[d][0] = ZeroSector /\ HasLayout(d) /\ HasSb(d)

(***************************************************************************)
(* The planner's branches                                                  *)
(***************************************************************************)
\* C26: for a requested block size in 512..32768 and any device size and
\* native block size, planning never takes the halving branch (the else path
\* of `size >= min_size(bucket_size)` after the clamp to 512).
C26_HalvingUnreachable ==
    (Planned /\ MIN_BLOCK_SIZE <= Args.block_size /\ Args.block_size <= 32768) =>
        PlanBranch(probe.size, probe.block_size, Args.block_size) # "halve"

\* planning took the scaling branch on a device of the smallest accepted size
C26_Witness ==
    /\ Planned
    /\ Args.block_size = 512
    /\ probe = [size |-> 32768, block_size |-> 1]
    /\ PlanBranch(probe.size, probe.block_size, Args.block_size) = "scale"
    /\ Len(devs) >= 1

\* planning returned early on a device one sector smaller
C26_WitnessSmall ==
    /\ Planned
    /\ Args.block_size = 512
    /\ probe = [size |-> 32767, block_size |-> 1]
    /\ PlanBranch(probe.size, probe.block_size, Args.block_size) = "return"
    /\ pc = "failed"

(***************************************************************************)
(* The frame of the SuperBlock setters                                     *)
(***************************************************************************)
\* the byte range <<start, end>> of the field a SuperBlock setter is for, as
\* the table of the on-disk layout has it
FieldRange ==
    CASE call.fn = "set_version" -> <<16, 18>>
      [] call.fn = "set_version_min" -> <<18, 20>>
      [] call.fn = "set_magic" -> <<24, 40>>
      [] call.fn = "set_uuid" -> <<40, 56>>
      [] call.fn = "set_user_uuid" -> <<56, 72>>
      [] call.fn = "set_label" -> <<72, 104>>
      [] call.fn = "set_offset" -> <<104, 112>>
      [] call.fn = "set_seq" -> <<112, 120>>
      [] call.fn = "set_block_size" -> <<120, 122>>
      [] call.fn = "set_dev_idx" -> <<122, 123>>
      [] call.fn = "set_nr_devices" -> <<123, 124>>
      [] call.fn = "set_u64s" -> <<124, 128>>
      [] call.fn = "set_time_base_p" -> <<140, 144>>
      [] call.fn = "set_flags" -> <<144, 208>>
      [] call.fn = "set_feature" -> <<208, 224>>
      [] call.fn = "set_layout" -> <<240, 752>>

\* a SuperBlock setter has returned
SbSetterCalled == pc = "returned" /\ call.obj = "sb" /\ call.fn \in SbSetters

\* C27: a SuperBlock setter changes bytes of its own field's range only, for
\* every argument it accepts: set_feature(idx, v) inside 208..224, set_flags
\* inside 144..208, set_layout inside 240..752; set_version, set_version_min
\* and set_magic on a zeroed buffer give zeros around the value written.
C27_SettersKeepToField ==
    SbSetterCalled =>
        /\ Len(out.buf) = Len(call.buf)
        /\ \A j \in 1..Len(call.buf) :
            (j - 1 < FieldRange[1] \/ j - 1 >= FieldRange[2]) => out.buf[j] = call.buf[j]
        /\ (out.err = "none" /\ call.buf = Zeros(SB_BUF_LEN)) =>
            /\ (call.fn = "set_version" /\ call.val = 4660) =>
                out.buf = WriteAt(Zeros(SB_BUF_LEN), 16, <<52, 18>>)
            /\ (call.fn = "set_version_min" /\ call.val = 13398) =>
                out.buf = WriteAt(Zeros(SB_BUF_LEN), 18, <<86, 52>>)
            /\ call.fn = "set_magic" =>
                out.buf = WriteAt(Zeros(SB_BUF_LEN), 24, MagicBytes)

(***************************************************************************)
(* Failures after the first write                                          *)
(***************************************************************************)
\* the steps of format from the zeroing loop on
WritePhases == {"zero", "build_layout", "write_layout", "build_sb", "write_sb"}

\* C28: once zeroing has started, the only failure format can still report is
\* an I/O failure: for every argument set that planning and the block-size
\* test accept, building the flags, the layout and the superblock never fails
\* with Exhausted or Einval; the superblock buffer holds the Members field of
\* every accepted device count.
C28_OnlyIoAfterZeroing ==
    (pc = "failed" /\ err.at \in WritePhases) => err.kind = "IoError"

(***************************************************************************)
(* The planner on any input                                                *)
(***************************************************************************)
\* C29: for every device size, native block size and requested block size,
\* zero and sizes under 64 sectors included, planning ends with a plan or with
\* a ConfigError: no division by zero, and a planned bucket_size fits the
\* 16-bit bucket_size field of the member.
C29_PlannerTotal ==
    Planned =>
        /\ pc = "failed" => err.kind = "ConfigError"
        /\ \A k \in 1..Len(devs) :
            /\ devs[k].bucket_size < Pow2(16)
            /\ LEValue(LEBytes(devs[k].bucket_size % Pow2(16), 2)) = devs[k].bucket_size

=============================================================================
